---- MODULE Spec2Model ----
(***************************************************************************)
(* Molecular bonding lab: the bonding rule evaluator of src/src/atomData.ts *)
(* (canBond, getBondType, getMaxBonds), the molecule-completion checker    *)
(* and the scene handlers of the Block component in src/src/Atom3D.tsx     *)
(* (addAtom, handleAtomClick/createBond, removeBond, deleteAtom,           *)
(* handleAtomDragEnd, handleReset, handleNextChallenge and the delayed     *)
(* completion check).                                                      *)
(***************************************************************************)
EXTENDS Integers, Sequences, FiniteSets, TLC

VARIABLES
    evalAtom1, evalAtom2,   \* symbols of the pair handed to the rule evaluator
    evalCanBond,            \* <<what canBond returned for it>>, << >> before the call
    evalBondType            \* <<what getBondType returned for it>>, << >> before

evalVars == <<evalAtom1, evalAtom2, evalCanBond, evalBondType>>

VARIABLES
    chkAtoms,               \* the placed atoms handed to the completion check
    chkBonds,               \* the bonds handed to it
    chkBuilt,               \* the completed list it reads (builtMolecules)
    chkReport               \* <<the formulas it reported>>, << >> before the call

chkVars == <<chkAtoms, chkBonds, chkBuilt, chkReport>>

VARIABLES
    currentScreen,          \* 'home' | 'game'
    gameMode,               \* 'tutorial' | 'practice' | 'challenge'
    currentChallenge,       \* index into MOLECULES, from 0
    score,
    showTutorial,           \* the tutorial modal is open
    message,                \* the message shown, as <<text, arguments>>; << >> is ''
    messageTimer,           \* the timer of messageTimeoutRef is pending
    placedAtoms,            \* sequence of [id, symbol, position, availableBonds]
    bonds,                  \* sequence of [id, atom1Id, atom2Id, type, strength]
    builtMolecules,         \* formulas completed, in order
    bondingMode,
    firstAtomForBond,       \* id of the first atom picked, NoAtom for null
    atomIdCounter,          \* atomIdCounter.current
    bondIdCounter,          \* bonds created so far: bond ids are fresh
    completionTimers,       \* pending 100 ms callbacks of createBond, oldest first
    advanceTimers           \* pending 3 s challenge advances, oldest first

gameVars == <<currentScreen, gameMode, currentChallenge, score, showTutorial, message,
              messageTimer, placedAtoms, bonds, builtMolecules, bondingMode,
              firstAtomForBond, atomIdCounter, bondIdCounter, completionTimers,
              advanceTimers>>

VARIABLES
    tutorialStep,           \* index into TUTORIAL_STEPS, from 0
    seedTimers              \* pending chains of the starter-atom effect, oldest first

tutVars == <<tutorialStep, seedTimers>>

\* The calls of getMaxBonds and calculateAvailableBonds: the symbol and the
\* bond count passed, and what each returned (<< >> before the call).
VARIABLES
    capSymbol, capCount, capMaxBonds, capAvailable

capVars == <<capSymbol, capCount, capMaxBonds, capAvailable>>

(***************************************************************************)
(* JavaScript numbers.  Every electronegativity of the table is a decimal  *)
(* literal with one fractional digit, held as the IEEE-754 binary64 value  *)
(* nearest to it, and the code subtracts and compares these values.  A     *)
(* number is the record [t, e] standing for t/10 + e/(10 * 2^56): t        *)
(* counts tenths and e is the distance from that decimal value in units    *)
(* small enough that every binary64 value between 1/16 and 128 is such a   *)
(* record with an integer e.                                               *)
(***************************************************************************)
RECURSIVE Pow2(_)
Pow2(n) == IF n = 0 THEN 1 ELSE 2 * Pow2(n - 1)

RECURSIVE Pow2Mod10(_)
Pow2Mod10(n) == IF n = 0 THEN 1 ELSE (2 * Pow2Mod10(n - 1)) % 10

NumZero == [t |-> 0, e |-> 0]

NumNeg(x) == [t |-> 0 - x.t, e |-> 0 - x.e]

NumIsNeg(x) == x.t < 0 \/ (x.t = 0 /\ x.e < 0)

\* x > y on the exact values (|e| stays far below 2^56, one tenth).
NumGt(x, y) == x.t > y.t \/ (x.t = y.t /\ x.e > y.e)

NumLe(x, y) == ~NumGt(x, y)

\* Binade of a positive value: the s with 10*2^s*2^52 <= X < 10*2^(s+1)*2^52
\* where X = t*2^56 + e; binary64 values of that binade are 10*2^s units apart.
NumAtLeast(x, g) == 16 * x.t > g \/ (16 * x.t = g /\ x.e >= 0)

NumBinade(x) == CHOOSE s \in 0..7 :
    /\ NumAtLeast(x, 10 * Pow2(s))
    /\ \A s2 \in (s + 1)..7 : ~NumAtLeast(x, 10 * Pow2(s2))

\* (t*2^56 + e) mod (10*2^s), without leaving 32-bit integers.
NumRem(x, s) ==
    (Pow2(s) * ((x.t * Pow2Mod10(56 - s)) % 10) + x.e) % (10 * Pow2(s))

\* Round to nearest binary64, ties to even (IEEE-754 default), x > 0.
NumRoundPos(x) ==
    LET s == NumBinade(x)
        g == 10 * Pow2(s)
        r == NumRem(x, s)
        odd == NumRem(x, s + 1) >= g
        up == 2 * r > g \/ (2 * r = g /\ odd)
    IN  IF r = 0 THEN x
        ELSE IF up THEN [t |-> x.t, e |-> x.e - r + g]
        ELSE [t |-> x.t, e |-> x.e - r]

NumRound(x) ==
    IF x.t = 0 THEN x
    ELSE IF NumIsNeg(x) THEN NumNeg(NumRoundPos(NumNeg(x)))
    ELSE NumRoundPos(x)

\* The binary64 value of the decimal literal tenths/10 (2.3 is NumLit(23)).
NumLit(tenths) == NumRound([t |-> tenths, e |-> 0])

\* a - b: the exact difference, rounded.
NumSub(a, b) == NumRound([t |-> a.t - b.t, e |-> a.e - b.e])

\* Math.abs
NumAbs(x) == IF NumIsNeg(x) THEN NumNeg(x) ELSE x

(***************************************************************************)
(* The element table ATOMS: the symbols, in table order, and the           *)
(* electronegativity literal of each in tenths (2.1 is 21).                *)
(***************************************************************************)
Symbols == {
    "H", "He", "Li", "Be", "B", "C", "N", "O", "F", "Ne", "Na", "Mg", "Al", "Si", "P",
    "S", "Cl", "Ar", "K", "Ca", "Sc", "Ti", "V", "Cr", "Mn", "Fe", "Co", "Ni", "Cu",
    "Zn", "Ga", "Ge", "As", "Se", "Br", "Kr", "Rb", "Sr", "Y", "Zr", "Nb", "Mo", "Tc",
    "Ru", "Rh", "Pd", "Ag", "Cd", "In", "Sn", "Sb", "Te", "I", "Xe", "Cs", "Ba", "La",
    "Ce", "Pr", "Nd", "Pm", "Sm", "Eu", "Gd", "Tb", "Dy", "Ho", "Er", "Tm", "Yb", "Lu",
    "Hf", "Ta", "W", "Re", "Os", "Ir", "Pt", "Au", "Hg", "Tl", "Pb", "Bi", "Po", "At",
    "Rn", "Fr", "Ra", "Ac", "Th", "Pa", "U", "Np", "Pu", "Am", "Cm", "Bk", "Cf", "Es",
    "Fm", "Md", "No", "Lr", "Rf", "Db", "Sg", "Bh", "Hs", "Mt", "Ds", "Rg", "Cn", "Nh",
    "Fl", "Mc", "Lv", "Ts", "Og" }

electronegativityTenths ==
  [ H |-> 21, He |-> 0, Li |-> 10, Be |-> 15, B |-> 20, C |-> 25, N |-> 30, O |-> 35,
    F |-> 40, Ne |-> 0, Na |-> 9, Mg |-> 12, Al |-> 15, Si |-> 18, P |-> 21, S |-> 25,
    Cl |-> 30, Ar |-> 0, K |-> 8, Ca |-> 10, Sc |-> 13, Ti |-> 15, V |-> 16, Cr |-> 16,
    Mn |-> 15, Fe |-> 18, Co |-> 18, Ni |-> 18, Cu |-> 19, Zn |-> 16, Ga |-> 16,
    Ge |-> 18, As |-> 20, Se |-> 24, Br |-> 28, Kr |-> 0, Rb |-> 8, Sr |-> 10, Y |-> 12,
    Zr |-> 13, Nb |-> 16, Mo |-> 22, Tc |-> 19, Ru |-> 22, Rh |-> 23, Pd |-> 22,
    Ag |-> 19, Cd |-> 17, In |-> 18, Sn |-> 20, Sb |-> 21, Te |-> 21, I |-> 25,
    Xe |-> 26, Cs |-> 7, Ba |-> 9, La |-> 11, Ce |-> 11, Pr |-> 11, Nd |-> 11, Pm |-> 11,
    Sm |-> 12, Eu |-> 12, Gd |-> 12, Tb |-> 12, Dy |-> 12, Ho |-> 12, Er |-> 12,
    Tm |-> 12, Yb |-> 11, Lu |-> 13, Hf |-> 13, Ta |-> 15, W |-> 24, Re |-> 19,
    Os |-> 22, Ir |-> 22, Pt |-> 23, Au |-> 24, Hg |-> 19, Tl |-> 16, Pb |-> 18,
    Bi |-> 20, Po |-> 20, At |-> 22, Rn |-> 22, Fr |-> 7, Ra |-> 9, Ac |-> 11, Th |-> 13,
    Pa |-> 15, U |-> 14, Np |-> 14, Pu |-> 13, Am |-> 13, Cm |-> 13, Bk |-> 13,
    Cf |-> 13, Es |-> 13, Fm |-> 13, Md |-> 13, No |-> 13, Lr |-> 13, Rf |-> 13,
    Db |-> 15, Sg |-> 19, Bh |-> 22, Hs |-> 23, Mt |-> 24, Ds |-> 28, Rg |-> 29,
    Cn |-> 30, Nh |-> 31, Fl |-> 30, Mc |-> 28, Lv |-> 27, Ts |-> 26, Og |-> 25 ]

\* ATOMS[symbol]: the fields of AtomData the evaluator reads.
ATOMS(symbol) ==
    [symbol |-> symbol, electronegativity |-> NumLit(electronegativityTenths[symbol])]

(***************************************************************************)
(* getBondType                                                             *)
(***************************************************************************)
IonicThreshold == NumLit(17)

getBondTypeNoAbs(atom1, atom2) ==
    IF NumGt(NumSub(atom1.electronegativity, atom2.electronegativity), IonicThreshold)
    THEN "ionic" ELSE "covalent"

getBondType(atom1, atom2) ==
    LET electronegativityDiff ==
            NumAbs(NumSub(atom1.electronegativity, atom2.electronegativity))
    IN  IF NumGt(electronegativityDiff, IonicThreshold) THEN "ionic" ELSE "covalent"

(***************************************************************************)
(* canBond: the rule cascade, in the order of the code.                    *)
(***************************************************************************)
nobleGasesWithoutOg == {"He", "Ne", "Ar", "Kr", "Xe", "Rn"}

nobleGases == {"He", "Ne", "Ar", "Kr", "Xe", "Rn", "Og"}

commonHydrogenBonds == {"C", "N", "O", "F", "S", "Cl", "Br", "I"}

carbonBonds == {"C", "N", "O", "F", "S", "Cl", "Br", "I", "Si", "P"}

diatomic == {
    <<"H", "H">>, <<"O", "O">>, <<"N", "N">>, <<"F", "F">>, <<"Cl", "Cl">>,
    <<"Br", "Br">>, <<"I", "I">> }

metals == {
    "Li", "Na", "K", "Rb", "Cs", "Fr", "Mg", "Ca", "Sr", "Ba", "Ra", "Al", "Ga", "In",
    "Sn", "Pb", "Bi", "Sc", "Ti", "V", "Cr", "Mn", "Fe", "Co", "Ni", "Cu", "Zn", "Y",
    "Zr", "Nb", "Mo", "Tc", "Ru", "Rh", "Pd", "Ag", "Cd", "Hf", "Ta", "W", "Re", "Os",
    "Ir", "Pt", "Au", "Hg", "Tl" }

nonmetals == {
    "F", "Cl", "Br", "I", "At", "O", "S", "Se", "Te", "Po", "N", "P", "As", "Sb", "Bi" }

covalentPairs == {
    <<"N", "O">>, <<"N", "F">>, <<"N", "Cl">>,
    <<"O", "F">>, <<"O", "Cl">>, <<"O", "S">>,
    <<"S", "F">>, <<"S", "Cl">>, <<"S", "Br">>,
    <<"P", "O">>, <<"P", "F">>, <<"P", "Cl">>,
    <<"Si", "O">>, <<"Si", "F">>, <<"Si", "Cl">>,
    <<"Se", "O">>, <<"Te", "O">>, <<"As", "O">> }

\* pairs.some(([a, b]) => (a === s1 && b === s2) || (a === s2 && b === s1))
PairListed(pairs, symbol1, symbol2) ==
    \E p \in pairs :
        \/ p[1] = symbol1 /\ p[2] = symbol2
        \/ p[1] = symbol2 /\ p[2] = symbol1

MetalWithNonmetalOneWay(symbol1, symbol2) ==
    symbol1 \in metals /\ symbol2 \in nonmetals

MetalWithNonmetal(symbol1, symbol2) ==
    \/ symbol1 \in metals /\ symbol2 \in nonmetals
    \/ symbol2 \in metals /\ symbol1 \in nonmetals

FallbackLimit == NumLit(30)

\* canBond with hydrogen and carbon rules that only accept: a pair they
\* do not list goes on to the later rules.
canBondFallingThrough(atom1, atom2) ==
    LET symbol1 == atom1.symbol
        symbol2 == atom2.symbol
        nonHydrogen == IF symbol1 = "H" THEN symbol2 ELSE symbol1
        nonCarbon == IF symbol1 = "C" THEN symbol2 ELSE symbol1
        electronegativityDiff ==
            NumAbs(NumSub(atom1.electronegativity, atom2.electronegativity))
    IN  IF symbol1 \in nobleGases \/ symbol2 \in nobleGases THEN FALSE
        ELSE IF (symbol1 = "H" \/ symbol2 = "H")
                /\ (nonHydrogen = "H" \/ nonHydrogen \in commonHydrogenBonds) THEN TRUE
        ELSE IF (symbol1 = "C" \/ symbol2 = "C") /\ nonCarbon \in carbonBonds THEN TRUE
        ELSE IF PairListed(diatomic, symbol1, symbol2) THEN TRUE
        ELSE IF MetalWithNonmetal(symbol1, symbol2) THEN TRUE
        ELSE IF PairListed(covalentPairs, symbol1, symbol2) THEN TRUE
        ELSE /\ NumLe(electronegativityDiff, FallbackLimit)
             /\ NumGt(atom1.electronegativity, NumZero)
             /\ NumGt(atom2.electronegativity, NumZero)

canBond(atom1, atom2) ==
    LET symbol1 == atom1.symbol
        symbol2 == atom2.symbol
    IN  IF symbol1 \in nobleGases \/ symbol2 \in nobleGases THEN FALSE
        ELSE IF symbol1 = "H" \/ symbol2 = "H" THEN
            LET nonHydrogen == IF symbol1 = "H" THEN symbol2 ELSE symbol1
            IN  nonHydrogen = "H" \/ nonHydrogen \in commonHydrogenBonds
        ELSE IF symbol1 = "C" \/ symbol2 = "C" THEN
            LET nonCarbon == IF symbol1 = "C" THEN symbol2 ELSE symbol1
            IN  nonCarbon \in carbonBonds
        ELSE IF PairListed(diatomic, symbol1, symbol2) THEN TRUE
        ELSE IF MetalWithNonmetal(symbol1, symbol2) THEN TRUE
        ELSE IF PairListed(covalentPairs, symbol1, symbol2) THEN TRUE
        ELSE
            LET electronegativityDiff ==
                    NumAbs(NumSub(atom1.electronegativity, atom2.electronegativity))
            IN  /\ NumLe(electronegativityDiff, FallbackLimit)
                /\ NumGt(atom1.electronegativity, NumZero)
                /\ NumGt(atom2.electronegativity, NumZero)

(***************************************************************************)
(* The rule evaluator on its own: a pair of elements of the table is       *)
(* chosen and canBond and getBondType are called on it.                    *)
(***************************************************************************)
EvalInit ==
    /\ evalAtom1 \in Symbols
    /\ evalAtom2 \in Symbols
    /\ evalCanBond = << >>
    /\ evalBondType = << >>

CallCanBond ==
    /\ evalCanBond = << >>
    /\ evalCanBond' = <<canBond(ATOMS(evalAtom1), ATOMS(evalAtom2))>>
    /\ UNCHANGED <<evalAtom1, evalAtom2, evalBondType>>

CallGetBondType ==
    /\ evalBondType = << >>
    /\ evalBondType' = <<getBondType(ATOMS(evalAtom1), ATOMS(evalAtom2))>>
    /\ UNCHANGED <<evalAtom1, evalAtom2, evalCanBond>>

(***************************************************************************)
(* The molecule catalog.                                                   *)
(***************************************************************************)
MOLECULES == <<
    [formula |-> "H₂", atoms |-> <<"H", "H">>, bondType |-> "covalent",
     name |-> "Hydrogen Gas"],
    [formula |-> "O₂", atoms |-> <<"O", "O">>, bondType |-> "covalent",
     name |-> "Oxygen Gas"],
    [formula |-> "H₂O", atoms |-> <<"H", "O", "H">>, bondType |-> "covalent",
     name |-> "Water"],
    [formula |-> "CO₂", atoms |-> <<"C", "O", "O">>, bondType |-> "covalent",
     name |-> "Carbon Dioxide"],
    [formula |-> "NaCl", atoms |-> <<"Na", "Cl">>, bondType |-> "ionic",
     name |-> "Sodium Chloride"],
    [formula |-> "CH₄", atoms |-> <<"C", "H", "H", "H", "H">>, bondType |-> "covalent",
     name |-> "Methane"],
    [formula |-> "NH₃", atoms |-> <<"N", "H", "H", "H">>, bondType |-> "covalent",
     name |-> "Ammonia"],
    [formula |-> "HCl", atoms |-> <<"H", "Cl">>, bondType |-> "covalent",
     name |-> "Hydrogen Chloride"],
    [formula |-> "H₂S", atoms |-> <<"H", "S", "H">>, bondType |-> "covalent",
     name |-> "Hydrogen Sulfide"],
    [formula |-> "SO₂", atoms |-> <<"S", "O", "O">>, bondType |-> "covalent",
     name |-> "Sulfur Dioxide"] >>

SeqRange(q) == {q[i] : i \in DOMAIN q}

(***************************************************************************)
(* getMaxBonds: the table of the element module.                           *)
(***************************************************************************)
maxBondsMap ==
    [H |-> 1, He |-> 0, Li |-> 1, Be |-> 2, B |-> 3, C |-> 4, N |-> 3,
     O |-> 2, F |-> 1, Ne |-> 0, Na |-> 1, Mg |-> 2, Al |-> 3, Si |-> 4,
     P |-> 5, S |-> 6, Cl |-> 1, Ar |-> 0, K |-> 1, Ca |-> 2, Sc |-> 3,
     Ti |-> 4, V |-> 5, Cr |-> 6, Mn |-> 7, Fe |-> 6, Co |-> 3, Ni |-> 2,
     Cu |-> 2, Zn |-> 2, Ga |-> 3, Ge |-> 4, As |-> 5, Se |-> 6, Br |-> 1,
     Kr |-> 0, Rb |-> 1, Sr |-> 2, Y |-> 3, Zr |-> 4, Nb |-> 5, Mo |-> 6,
     Tc |-> 7, Ru |-> 8, Rh |-> 3, Pd |-> 2, Ag |-> 1, Cd |-> 2, In |-> 3,
     Sn |-> 4, Sb |-> 5, Te |-> 6, I |-> 1, Xe |-> 0, Cs |-> 1, Ba |-> 2,
     La |-> 3, Hf |-> 4, Ta |-> 5, W |-> 6, Re |-> 7, Os |-> 8, Ir |-> 3,
     Pt |-> 4, Au |-> 3, Hg |-> 2, Tl |-> 3, Pb |-> 4, Bi |-> 5, Po |-> 6,
     At |-> 1, Rn |-> 0, Fr |-> 1, Ra |-> 2, Ac |-> 3, Rf |-> 4, Db |-> 5,
     Sg |-> 6, Bh |-> 7, Hs |-> 8, Mt |-> 3, Ds |-> 2, Rg |-> 1, Cn |-> 2,
     Nh |-> 3, Fl |-> 4, Mc |-> 5, Lv |-> 6, Ts |-> 1, Og |-> 0]

\* Symbols that are no keys of ATOMS, for the calls made with them.
OtherSymbols == {"Xx", "h", ""}

getMaxBondsOfMap(atomSymbol) ==
    IF atomSymbol \in DOMAIN maxBondsMap THEN maxBondsMap[atomSymbol] ELSE 1

\* maxBondsMap[atomSymbol] || 1, after the early return for a symbol ATOMS lacks
getMaxBonds(atomSymbol) ==
    IF atomSymbol \notin Symbols THEN 0
    ELSE IF atomSymbol \in DOMAIN maxBondsMap /\ maxBondsMap[atomSymbol] # 0
         THEN maxBondsMap[atomSymbol]
         ELSE 1

(***************************************************************************)
(* calculateAvailableBonds: the table of the scene component.              *)
(***************************************************************************)
maxBondsOfSceneHydrogenTwo ==
    [H |-> 2, O |-> 2, N |-> 3, C |-> 4, F |-> 1, Cl |-> 1, Na |-> 1, Mg |-> 2]

maxBondsOfScene ==
    [H |-> 1, O |-> 2, N |-> 3, C |-> 4, F |-> 1, Cl |-> 1, Na |-> 1, Mg |-> 2]

Max(a, b) == IF a >= b THEN a ELSE b

calculateAvailableBonds(atomData, existingBonds) ==
    LET max == IF atomData.symbol \in DOMAIN maxBondsOfScene
               THEN maxBondsOfScene[atomData.symbol] ELSE 1
    IN  Max(0, max - existingBonds)

\* The largest bond count passed to calculateAvailableBonds.
MaxExistingBonds == 8

CapInit ==
    /\ capSymbol \in Symbols \cup OtherSymbols
    /\ capCount \in 0..MaxExistingBonds
    /\ capMaxBonds = << >>
    /\ capAvailable = << >>

CallGetMaxBonds ==
    /\ capMaxBonds = << >>
    /\ capMaxBonds' = <<getMaxBonds(capSymbol)>>
    /\ UNCHANGED <<capSymbol, capCount, capAvailable>>

\* The scene passes ATOMS[atomSymbol] of an element only (addAtom returns
\* early without one).
CallCalculateAvailableBonds ==
    /\ capSymbol \in Symbols
    /\ capAvailable = << >>
    /\ capAvailable' = <<calculateAvailableBonds(ATOMS(capSymbol), capCount)>>
    /\ UNCHANGED <<capSymbol, capCount, capMaxBonds>>

(***************************************************************************)
(* checkMoleculeCompletion.  A placed atom is [id, symbol, position,       *)
(* availableBonds], a bond [id, atom1Id, atom2Id, type, strength].         *)
(***************************************************************************)
\* The reduce of the code: how often symbol occurs in a list of symbols.
CountOf(symbol, symbolList) ==
    Cardinality({i \in DOMAIN symbolList : symbolList[i] = symbol})

SymbolsOf(currentAtoms) == [i \in DOMAIN currentAtoms |-> currentAtoms[i].symbol]

hasExactAtomsOrdered(molecule, currentAtoms) ==
    SymbolsOf(currentAtoms) = molecule.atoms

hasExactAtomsIgnoringExtras(molecule, currentAtoms) ==
    \A symbol \in SeqRange(molecule.atoms) :
        CountOf(symbol, SymbolsOf(currentAtoms)) = CountOf(symbol, molecule.atoms)

hasExactAtoms(molecule, currentAtoms) ==
    LET atomCountKeys == SeqRange(molecule.atoms)
        placedCountKeys == SeqRange(SymbolsOf(currentAtoms))
    IN  /\ \A symbol \in atomCountKeys :
              CountOf(symbol, SymbolsOf(currentAtoms)) = CountOf(symbol, molecule.atoms)
        /\ Cardinality(placedCountKeys) = Cardinality(atomCountKeys)

BondsAt(atomId, currentBonds) ==
    {i \in DOMAIN currentBonds :
        currentBonds[i].atom1Id = atomId \/ currentBonds[i].atom2Id = atomId}

hasCorrectBondsOneFewer(molecule, currentAtoms, currentBonds) ==
    Len(currentBonds) = Len(molecule.atoms) - 2

\* A bond test that any bond at all passes.
hasCorrectBondsAtLeastOne(molecule, currentAtoms, currentBonds) ==
    Len(currentBonds) >= 1

hasCorrectBonds(molecule, currentAtoms, currentBonds) ==
    IF molecule.formula = "H2O" THEN
        LET oxygens == {i \in DOMAIN currentAtoms : currentAtoms[i].symbol = "O"}
            hydrogenAtoms == {i \in DOMAIN currentAtoms : currentAtoms[i].symbol = "H"}
        IN  IF oxygens # {} /\ Cardinality(hydrogenAtoms) = 2 THEN
                LET oxygenAtom == currentAtoms[CHOOSE i \in oxygens :
                                                   \A j \in oxygens : i <= j]
                IN  Cardinality(BondsAt(oxygenAtom.id, currentBonds)) = 2
            ELSE FALSE
    ELSE Len(currentBonds) = Len(molecule.atoms) - 1

IsNewlyCompletedIgnoringBuilt(molecule, currentAtoms, currentBonds, built) ==
    /\ hasExactAtoms(molecule, currentAtoms)
    /\ hasCorrectBonds(molecule, currentAtoms, currentBonds)

\* The condition of the forEach body; built is the builtMolecules the callback closes over.
IsNewlyCompleted(molecule, currentAtoms, currentBonds, built) ==
    /\ hasExactAtoms(molecule, currentAtoms)
    /\ hasCorrectBonds(molecule, currentAtoms, currentBonds)
    /\ molecule.formula \notin SeqRange(built)

\* The templates one call reports, in catalog order.
checkMoleculeCompletion(currentAtoms, currentBonds, built) ==
    SelectSeq(MOLECULES,
              LAMBDA molecule : IsNewlyCompleted(molecule, currentAtoms, currentBonds, built))

FormulasOf(molecules) == [i \in DOMAIN molecules |-> molecules[i].formula]

(***************************************************************************)
(* The completion check on its own.  The scenes it is given are the        *)
(* catalog templates with up to MaxMissing atoms left out and up to        *)
(* MaxExtra atoms added, under every set of bonds createBond accepts       *)
(* (elements that canBond, both atoms with a slot left, one bond a pair);  *)
(* the completed lists are those of up to MaxBuilt formulas.               *)
(***************************************************************************)
MaxMissing == 1

MaxExtra == 1

MaxBuilt == 1

ExtraSymbols == {"H", "O", "He"}

SeqWithout(q, dropped) ==
    LET F[i \in 0..Len(q)] ==
            IF i = 0 THEN << >>
            ELSE IF i \in dropped THEN F[i - 1] ELSE Append(F[i - 1], q[i])
    IN  F[Len(q)]

ExtraLists == UNION {[1..k -> ExtraSymbols] : k \in 0..MaxExtra}

SceneSymbolLists ==
    UNION {
        {SeqWithout(MOLECULES[m].atoms, dropped) \o extra :
            dropped \in {d \in SUBSET DOMAIN MOLECULES[m].atoms : Cardinality(d) <= MaxMissing},
            extra \in ExtraLists}
        : m \in DOMAIN MOLECULES}

DegreeIn(i, pairs) == Cardinality({k \in DOMAIN pairs : i \in {pairs[k][1], pairs[k][2]}})

CanAddPair(symbolList, i, j, pairs) ==
    /\ canBond(ATOMS(symbolList[i]), ATOMS(symbolList[j]))
    /\ calculateAvailableBonds(ATOMS(symbolList[i]), DegreeIn(i, pairs)) > 0
    /\ calculateAvailableBonds(ATOMS(symbolList[j]), DegreeIn(j, pairs)) > 0

\* Every list of index pairs i < j, from pair (i, j) on, that createBond would accept.
RECURSIVE BondPairLists(_, _, _, _)
BondPairLists(symbolList, i, j, pairs) ==
    IF j > Len(symbolList) THEN
        IF i + 1 >= Len(symbolList) THEN {pairs}
        ELSE BondPairLists(symbolList, i + 1, i + 2, pairs)
    ELSE
        BondPairLists(symbolList, i, j + 1, pairs)
        \cup (IF CanAddPair(symbolList, i, j, pairs)
              THEN BondPairLists(symbolList, i, j + 1, Append(pairs, <<i, j>>))
              ELSE {})

SceneAtoms(symbolList, pairs) ==
    [i \in DOMAIN symbolList |->
        [id |-> i, symbol |-> symbolList[i], position |-> <<0, 0, 0>>,
         availableBonds |->
             calculateAvailableBonds(ATOMS(symbolList[i]), DegreeIn(i, pairs))]]

\* Bonds are created with either atom first: every second one is turned round.
SceneBonds(symbolList, pairs) ==
    [k \in DOMAIN pairs |->
        LET first == IF k % 2 = 1 THEN pairs[k][1] ELSE pairs[k][2]
            second == IF k % 2 = 1 THEN pairs[k][2] ELSE pairs[k][1]
        IN  [id |-> k, atom1Id |-> first, atom2Id |-> second,
             type |-> getBondType(ATOMS(symbolList[first]), ATOMS(symbolList[second])),
             strength |-> 1]]

Formulas == {MOLECULES[m].formula : m \in DOMAIN MOLECULES}

\* Completed lists in catalog order, of at most MaxBuilt formulas.
BuiltLists ==
    {FormulasOf(SelectSeq(MOLECULES, LAMBDA molecule : molecule.formula \in chosen)) :
        chosen \in {c \in SUBSET Formulas : Cardinality(c) <= MaxBuilt}}

CheckInit ==
    /\ \E symbolList \in SceneSymbolLists :
           \E pairs \in BondPairLists(symbolList, 1, 2, << >>) :
               /\ chkAtoms = SceneAtoms(symbolList, pairs)
               /\ chkBonds = SceneBonds(symbolList, pairs)
    /\ chkBuilt = << >>
    /\ chkReport = << >>

RunCheck ==
    /\ chkReport = << >>
    /\ \E built \in BuiltLists :
           /\ chkBuilt' = built
           /\ chkReport' = <<FormulasOf(checkMoleculeCompletion(chkAtoms, chkBonds, built))>>
    /\ UNCHANGED <<chkAtoms, chkBonds>>

(***************************************************************************)
(* The scene component (Block).  Positions are in units of 1/2, so that    *)
(* the points used are integers: addAtom draws x from [-2, 2) and y, z     *)
(* from [-1, 1), i.e. [-4, 4) and [-2, 2) here, a drag ends anywhere.      *)
(* The two positions of addAtom are more than 4 apart; a drag can also end *)
(* at a point exactly 4 from the first of them.  At most MaxAtomId atoms   *)
(* and MaxBondId bonds are ever created, at most MaxPending completion     *)
(* callbacks are pending when a bond is created, and the Next Challenge    *)
(* button is pressed up to challenge MaxChallenge.                         *)
(***************************************************************************)
MaxAtomId == 2

MaxBondId == 2

MaxPending == 1

MaxChallenge == 1

GameSymbols == {"H", "O", "Na"}

GameModes == {"practice", "challenge"}

AddPositions == {<<-4, -2, -2>>, <<3, 1, 1>>}

DragPositions == AddPositions \cup {<<4, -2, -2>>}

MouseButtons == {0, 2}

NoAtom == 0

NoMessage == << >>

HasAtom(atoms, atomId) == \E i \in DOMAIN atoms : atoms[i].id = atomId

\* atoms.find(a => a.id === atomId), for an id that is there
AtomById(atoms, atomId) == atoms[CHOOSE i \in DOMAIN atoms : atoms[i].id = atomId]

AtomIds(atoms) == {atoms[i].id : i \in DOMAIN atoms}

\* showMessage shows nothing while the tutorial modal is open.
ShowsMessageOutsideTutorial(mode, tutorialShown) == mode # "tutorial"

\* gameMode !== 'tutorial' || !showTutorial
ShowsMessage(mode, tutorialShown) == mode # "tutorial" \/ ~tutorialShown

\* showMessage(msg) of the current render: the message and its clearing timer.
showMessage(msg) ==
    IF ShowsMessage(gameMode, showTutorial)
    THEN message' = msg /\ messageTimer' = TRUE
    ELSE UNCHANGED <<message, messageTimer>>

SquaredDistance(p, q) ==
    (p[1] - q[1]) * (p[1] - q[1]) + (p[2] - q[2]) * (p[2] - q[2])
        + (p[3] - q[3]) * (p[3] - q[3])

ProximityThreshold == 4

TooFarOrAtThreshold(position1, position2) ==
    SquaredDistance(position1, position2)
        >= (2 * ProximityThreshold) * (2 * ProximityThreshold)

\* distance > 4, the positions being in units of 1/2: the squares and their
\* sum are exact in binary64 and Math.sqrt is monotone and exact on 16.
TooFar(position1, position2) ==
    SquaredDistance(position1, position2)
        > (2 * ProximityThreshold) * (2 * ProximityThreshold)

IncidentBondsAsFirst(bondList, atomId) ==
    Cardinality({i \in DOMAIN bondList : bondList[i].atom1Id = atomId})

\* bonds.filter(bond => bond.atom1Id === atom.id || bond.atom2Id === atom.id).length
IncidentBonds(bondList, atomId) ==
    Cardinality({i \in DOMAIN bondList :
        bondList[i].atom1Id = atomId \/ bondList[i].atom2Id = atomId})

bondExistsOneWay(bondList, atom1Id, atom2Id) ==
    \E i \in DOMAIN bondList :
        bondList[i].atom1Id = atom1Id /\ bondList[i].atom2Id = atom2Id

bondExists(bondList, atom1Id, atom2Id) ==
    \E i \in DOMAIN bondList :
        \/ bondList[i].atom1Id = atom1Id /\ bondList[i].atom2Id = atom2Id
        \/ bondList[i].atom1Id = atom2Id /\ bondList[i].atom2Id = atom1Id

handleModeSelect(mode) ==
    /\ currentScreen = "home"
    /\ gameMode' = mode
    /\ currentChallenge' = 0
    /\ currentScreen' = "game"
    /\ placedAtoms' = << >>
    /\ bonds' = << >>
    /\ builtMolecules' = << >>
    /\ score' = 0
    /\ bondingMode' = FALSE
    /\ firstAtomForBond' = NoAtom
    /\ showTutorial' = (mode = "tutorial")
    /\ tutorialStep' = IF mode = "tutorial" THEN 0 ELSE tutorialStep
    /\ message' = IF mode = "tutorial" THEN message
                  ELSE IF mode = "practice" THEN <<"Practice mode">>
                  ELSE <<"Challenge mode: Build", MOLECULES[1].formula>>
    /\ UNCHANGED <<messageTimer, atomIdCounter, bondIdCounter, completionTimers,
                   advanceTimers>>

handleBackToHome ==
    /\ currentScreen = "game"
    /\ currentScreen' = "home"
    /\ showTutorial' = FALSE
    /\ placedAtoms' = << >>
    /\ bonds' = << >>
    /\ builtMolecules' = << >>
    /\ score' = 0
    /\ bondingMode' = FALSE
    /\ firstAtomForBond' = NoAtom
    /\ messageTimer' = FALSE
    /\ UNCHANGED <<gameMode, currentChallenge, message, atomIdCounter, bondIdCounter,
                   completionTimers, advanceTimers>>

\* handleAtomSelect(atomSymbol) and the addAtom it calls.
addAtom(atomSymbol, position) ==
    /\ currentScreen = "game"
    /\ atomSymbol \in Symbols
    /\ atomIdCounter' = atomIdCounter + 1
    /\ placedAtoms' = Append(placedAtoms,
           [id |-> atomIdCounter + 1, symbol |-> atomSymbol, position |-> position,
            availableBonds |-> calculateAvailableBonds(ATOMS(atomSymbol), 0)])
    /\ showMessage(<<"Added atom", atomSymbol>>)
    /\ UNCHANGED <<currentScreen, gameMode, currentChallenge, score, showTutorial, bonds,
                   builtMolecules, bondingMode, firstAtomForBond, bondIdCounter,
                   completionTimers, advanceTimers>>

toggleBondingMode ==
    /\ currentScreen = "game"
    /\ bondingMode' = ~bondingMode
    /\ firstAtomForBond' = NoAtom
    /\ showMessage(IF ~bondingMode THEN <<"Bond Mode ON">> ELSE <<"Bond Mode OFF">>)
    /\ UNCHANGED <<currentScreen, gameMode, currentChallenge, score, showTutorial,
                   placedAtoms, bonds, builtMolecules, atomIdCounter, bondIdCounter,
                   completionTimers, advanceTimers>>

noSlotLeftNever(atom) == FALSE

\* atom.availableBonds === 0
noSlotLeft(atom) == atom.availableBonds = 0

\* A createBond that creates nothing: the message, and nothing else of the scene.
\* A rejection that still schedules the completion check.
rejectBondSchedulingCheck(msg) ==
    /\ showMessage(msg)
    /\ completionTimers' = Append(completionTimers,
           [atoms |-> placedAtoms, bonds |-> bonds,
            builtMolecules |-> builtMolecules, gameMode |-> gameMode,
            showTutorial |-> showTutorial, currentChallenge |-> currentChallenge])
    /\ UNCHANGED <<placedAtoms, bonds, score, bondIdCounter>>

\* The early returns of createBond: a message and nothing else.
rejectBond(msg) ==
    /\ showMessage(msg)
    /\ UNCHANGED <<placedAtoms, bonds, score, bondIdCounter, completionTimers>>

makeBondAlwaysIonic(newId, atom1, atom2) ==
    [id |-> newId, atom1Id |-> atom1.id, atom2Id |-> atom2.id, type |-> "ionic",
     strength |-> 1]

\* const bondType = getBondType(...); const newBond = {id, atom1Id, atom2Id,
\* type: bondType, strength: 1}
makeBond(newId, atom1, atom2) ==
    [id |-> newId, atom1Id |-> atom1.id, atom2Id |-> atom2.id,
     type |-> getBondType(ATOMS(atom1.symbol), ATOMS(atom2.symbol)), strength |-> 1]

\* createBond(atom1Id, atom2Id); the caller sets firstAtomForBond.
createBond(atom1Id, atom2Id) ==
    IF ~HasAtom(placedAtoms, atom1Id) \/ ~HasAtom(placedAtoms, atom2Id) THEN
        rejectBond(<<"Invalid atoms selected!">>)
    ELSE
        LET atom1 == AtomById(placedAtoms, atom1Id)
            atom2 == AtomById(placedAtoms, atom2Id)
        IN  IF bondExists(bonds, atom1Id, atom2Id) THEN
                rejectBond(<<"Bond already exists between these atoms!">>)
            ELSE IF noSlotLeft(atom1) THEN
                rejectBond(<<"cannot form more bonds!", atom1.symbol>>)
            ELSE IF noSlotLeft(atom2) THEN
                rejectBond(<<"cannot form more bonds!", atom2.symbol>>)
            ELSE IF ~canBond(ATOMS(atom1.symbol), ATOMS(atom2.symbol)) THEN
                rejectBond(<<"cannot bond together!", atom1.symbol, atom2.symbol>>)
            ELSE IF TooFar(atom1.position, atom2.position) THEN
                rejectBond(<<"Atoms are too far apart!">>)
            ELSE
                LET bondType == getBondType(ATOMS(atom1.symbol), ATOMS(atom2.symbol))
                    newBond == makeBond(bondIdCounter + 1, atom1, atom2)
                IN  /\ bondIdCounter' = bondIdCounter + 1
                    /\ bonds' = Append(bonds, newBond)
                    /\ placedAtoms' =
                           [i \in DOMAIN placedAtoms |->
                               IF placedAtoms[i].id \in {atom1Id, atom2Id} THEN
                                   [placedAtoms[i] EXCEPT !.availableBonds =
                                       calculateAvailableBonds(
                                           ATOMS(placedAtoms[i].symbol),
                                           IncidentBonds(bonds, placedAtoms[i].id) + 1)]
                               ELSE placedAtoms[i]]
                    /\ score' = score + (IF bondType = "ionic" THEN 15 ELSE 10)
                    /\ showMessage(<<"bond created!", bondType, atom1.symbol, atom2.symbol>>)
                    /\ completionTimers' = Append(completionTimers,
                           [atoms |-> placedAtoms, bonds |-> Append(bonds, newBond),
                            builtMolecules |-> builtMolecules, gameMode |-> gameMode,
                            showTutorial |-> showTutorial,
                            currentChallenge |-> currentChallenge])

isFirstAtomNever(atomId) == FALSE

\* firstAtomForBond === atomId
isFirstAtom(atomId) == firstAtomForBond = atomId

\* handleAtomClick(atomId, button) on a rendered atom.  Selection and the
\* drag in progress are presentation state: outside bonding mode a click
\* only selects, and no drag is in progress when a click arrives.
handleAtomClick(atomId, button) ==
    /\ currentScreen = "game"
    /\ HasAtom(placedAtoms, atomId)
    /\ IF (bondingMode /\ button # 2) \/ ~bondingMode THEN
           UNCHANGED <<placedAtoms, bonds, score, bondIdCounter, completionTimers,
                       firstAtomForBond, message, messageTimer>>
       ELSE IF firstAtomForBond = NoAtom THEN
           /\ IF AtomById(placedAtoms, atomId).availableBonds > 0 THEN
                  /\ firstAtomForBond' = atomId
                  /\ showMessage(<<"Selected", AtomById(placedAtoms, atomId).symbol>>)
              ELSE
                  /\ firstAtomForBond' = firstAtomForBond
                  /\ showMessage(<<"cannot form more bonds!",
                                   AtomById(placedAtoms, atomId).symbol>>)
           /\ UNCHANGED <<placedAtoms, bonds, score, bondIdCounter, completionTimers>>
       ELSE IF isFirstAtom(atomId) THEN
           /\ firstAtomForBond' = NoAtom
           /\ showMessage(<<"Bond creation cancelled.">>)
           /\ UNCHANGED <<placedAtoms, bonds, score, bondIdCounter, completionTimers>>
       ELSE
           /\ createBond(firstAtomForBond, atomId)
           /\ firstAtomForBond' = NoAtom
    /\ UNCHANGED <<currentScreen, gameMode, currentChallenge, showTutorial,
                   builtMolecules, bondingMode, atomIdCounter, advanceTimers>>

\* removeBond(bondId), from a click on a rendered bond.
removeBond(bondId) ==
    /\ currentScreen = "game"
    /\ \E k \in DOMAIN bonds : bonds[k].id = bondId
    /\ LET bondToRemove == bonds[CHOOSE k \in DOMAIN bonds : bonds[k].id = bondId]
       IN  /\ bonds' = SelectSeq(bonds, LAMBDA bond : bond.id # bondId)
           /\ placedAtoms' =
                  [i \in DOMAIN placedAtoms |->
                      IF placedAtoms[i].id \in {bondToRemove.atom1Id, bondToRemove.atom2Id}
                      THEN [placedAtoms[i] EXCEPT !.availableBonds =
                               calculateAvailableBonds(
                                   ATOMS(placedAtoms[i].symbol),
                                   IncidentBonds(
                                       SelectSeq(bonds, LAMBDA bond : bond.id # bondId),
                                       placedAtoms[i].id))]
                      ELSE placedAtoms[i]]
    /\ showMessage(<<"Bond removed!">>)
    /\ UNCHANGED <<currentScreen, gameMode, currentChallenge, score, showTutorial,
                   builtMolecules, bondingMode, firstAtomForBond, atomIdCounter,
                   bondIdCounter, completionTimers, advanceTimers>>

bondTouchesAsFirst(bond, atomId) == bond.atom1Id = atomId

\* bond.atom1Id === atomId || bond.atom2Id === atomId
bondTouches(bond, atomId) == bond.atom1Id = atomId \/ bond.atom2Id = atomId

\* deleteAtom(atomId), from the Delete key on the selected atom.  Which atom
\* is selected is presentation state: any placed atom can be the one.
deleteAtom(atomId) ==
    /\ currentScreen = "game"
    /\ HasAtom(placedAtoms, atomId)
    /\ LET atomToDelete == AtomById(placedAtoms, atomId)
           keeps(bond) == ~bondTouches(bond, atomId)
           bondsToRemove == SelectSeq(bonds, LAMBDA bond : ~keeps(bond))
           affectedAtomIds ==
               {IF bondsToRemove[k].atom1Id = atomId THEN bondsToRemove[k].atom2Id
                ELSE bondsToRemove[k].atom1Id : k \in DOMAIN bondsToRemove}
           updatedAtoms == SelectSeq(placedAtoms, LAMBDA atom : atom.id # atomId)
       IN  /\ bonds' = SelectSeq(bonds, keeps)
           /\ placedAtoms' =
                  [i \in DOMAIN updatedAtoms |->
                      IF updatedAtoms[i].id \in affectedAtomIds THEN
                          [updatedAtoms[i] EXCEPT !.availableBonds =
                              calculateAvailableBonds(
                                  ATOMS(updatedAtoms[i].symbol),
                                  IncidentBonds(SelectSeq(bonds, keeps), updatedAtoms[i].id))]
                      ELSE updatedAtoms[i]]
           /\ firstAtomForBond' =
                  IF firstAtomForBond = atomId THEN NoAtom ELSE firstAtomForBond
           /\ showMessage(<<"atom deleted!", atomToDelete.symbol>>)
    /\ UNCHANGED <<currentScreen, gameMode, currentChallenge, score, showTutorial,
                   builtMolecules, bondingMode, atomIdCounter, bondIdCounter,
                   completionTimers, advanceTimers>>

\* A drag that also drops the bonds of the moved atom that have become
\* longer than the threshold.
handleAtomDragEndBreakingBonds(atomId, newPosition) ==
    /\ currentScreen = "game"
    /\ HasAtom(placedAtoms, atomId)
    /\ placedAtoms' =
           [i \in DOMAIN placedAtoms |->
               IF placedAtoms[i].id = atomId
               THEN [placedAtoms[i] EXCEPT !.position = newPosition]
               ELSE placedAtoms[i]]
    /\ bonds' = SelectSeq(bonds, LAMBDA bond :
           ~(/\ bondTouches(bond, atomId)
             /\ TooFar(AtomById(placedAtoms', bond.atom1Id).position,
                       AtomById(placedAtoms', bond.atom2Id).position)))
    /\ UNCHANGED <<currentScreen, gameMode, currentChallenge, score, showTutorial,
                   message, messageTimer, builtMolecules, bondingMode,
                   firstAtomForBond, atomIdCounter, bondIdCounter, completionTimers,
                   advanceTimers>>

handleAtomDragEnd(atomId, newPosition) ==
    /\ currentScreen = "game"
    /\ HasAtom(placedAtoms, atomId)
    /\ placedAtoms' =
           [i \in DOMAIN placedAtoms |->
               IF placedAtoms[i].id = atomId
               THEN [placedAtoms[i] EXCEPT !.position = newPosition]
               ELSE placedAtoms[i]]
    /\ UNCHANGED <<currentScreen, gameMode, currentChallenge, score, showTutorial,
                   message, messageTimer, bonds, builtMolecules, bondingMode,
                   firstAtomForBond, atomIdCounter, bondIdCounter, completionTimers,
                   advanceTimers>>

handleReset ==
    /\ currentScreen = "game"
    /\ placedAtoms' = << >>
    /\ bonds' = << >>
    /\ builtMolecules' = << >>
    /\ score' = 0
    /\ bondingMode' = FALSE
    /\ firstAtomForBond' = NoAtom
    /\ IF ShowsMessage(gameMode, showTutorial)
       THEN message' = <<"Scene reset.">> /\ messageTimer' = TRUE
       ELSE message' = message /\ messageTimer' = FALSE
    /\ UNCHANGED <<currentScreen, gameMode, currentChallenge, showTutorial,
                   atomIdCounter, bondIdCounter, completionTimers, advanceTimers>>

\* The catalog formula at a 0-based index, "undefined" past the end.
FormulaAt(index) ==
    IF index + 1 \in DOMAIN MOLECULES THEN MOLECULES[index + 1].formula ELSE "undefined"

\* handleNextChallenge; its button is rendered in challenge mode.
handleNextChallenge ==
    /\ currentScreen = "game"
    /\ gameMode = "challenge"
    /\ IF currentChallenge < Len(MOLECULES) - 1 THEN
           /\ currentChallenge' = currentChallenge + 1
           /\ showMessage(<<"Challenge: Build", FormulaAt(currentChallenge + 1)>>)
           /\ placedAtoms' = << >>
           /\ bonds' = << >>
       ELSE
           /\ showMessage(<<"All challenges completed!">>)
           /\ UNCHANGED <<currentChallenge, placedAtoms, bonds>>
    /\ UNCHANGED <<currentScreen, gameMode, score, showTutorial, builtMolecules,
                   bondingMode, firstAtomForBond, atomIdCounter, bondIdCounter,
                   completionTimers, advanceTimers>>

\* The callback createBond schedules (100 ms): checkMoleculeCompletion of
\* the render that created the bond, on that render's atoms and its bonds
\* plus the new one.  Timers of equal delay run in the order they were set.
completionTimerFires ==
    /\ completionTimers # << >>
    /\ LET timer == Head(completionTimers)
           completed == checkMoleculeCompletion(timer.atoms, timer.bonds,
                                                timer.builtMolecules)
           shows == ShowsMessage(timer.gameMode, timer.showTutorial)
           advances == timer.gameMode = "challenge"
                       /\ timer.currentChallenge < Len(MOLECULES) - 1
       IN  /\ completionTimers' = Tail(completionTimers)
           /\ builtMolecules' = builtMolecules \o FormulasOf(completed)
           /\ score' = score + 100 * Len(completed)
           /\ IF completed # << >> /\ shows
              THEN /\ message' = <<"Molecule completed:", completed[Len(completed)].formula>>
                   /\ messageTimer' = TRUE
              ELSE UNCHANGED <<message, messageTimer>>
           /\ advanceTimers' =
                  IF advances
                  THEN advanceTimers \o
                       [k \in DOMAIN completed |->
                           [gameMode |-> timer.gameMode,
                            showTutorial |-> timer.showTutorial,
                            currentChallenge |-> timer.currentChallenge]]
                  ELSE advanceTimers
    /\ UNCHANGED <<currentScreen, gameMode, currentChallenge, showTutorial, placedAtoms,
                   bonds, bondingMode, firstAtomForBond, atomIdCounter, bondIdCounter>>

\* The callback a completion schedules in challenge mode (3 s).
advanceTimerFires ==
    /\ advanceTimers # << >>
    /\ LET timer == Head(advanceTimers)
       IN  /\ advanceTimers' = Tail(advanceTimers)
           /\ currentChallenge' = currentChallenge + 1
           /\ IF ShowsMessage(timer.gameMode, timer.showTutorial)
              THEN /\ message' = <<"Next challenge: Build",
                                   FormulaAt(timer.currentChallenge + 1)>>
                   /\ messageTimer' = TRUE
              ELSE UNCHANGED <<message, messageTimer>>
    /\ UNCHANGED <<currentScreen, gameMode, score, showTutorial, placedAtoms, bonds,
                   builtMolecules, bondingMode, firstAtomForBond, atomIdCounter,
                   bondIdCounter, completionTimers>>

\* The timer showMessage sets clears the message.
messageTimerFires ==
    /\ messageTimer
    /\ message' = NoMessage
    /\ messageTimer' = FALSE
    /\ UNCHANGED <<currentScreen, gameMode, currentChallenge, score, showTutorial,
                   placedAtoms, bonds, builtMolecules, bondingMode, firstAtomForBond,
                   atomIdCounter, bondIdCounter, completionTimers, advanceTimers>>

(***************************************************************************)
(* Tutorial mode: the modal, its steps, and the effect that places the     *)
(* starter atoms.                                                          *)
(***************************************************************************)
\* TUTORIAL_STEPS.length
TutorialStepCount == 9

\* The atoms the effect's timers add, in order (1000 ms, then 500, then 500).
StarterAtoms == <<"H", "H", "O">>

\* The modal is an absolutely positioned layer over the whole game with
\* zIndex 3000 and pointerEvents 'auto': while it is rendered no pointer
\* event reaches the canvas or the panels of GameUI (zIndex up to 100).
pointerReachesScene == ~showTutorial

handleTutorialNext ==
    /\ currentScreen = "game"
    /\ showTutorial
    /\ IF tutorialStep < TutorialStepCount - 1 THEN
           /\ tutorialStep' = tutorialStep + 1
           /\ UNCHANGED <<showTutorial, message>>
       ELSE
           /\ showTutorial' = FALSE
           /\ message' = <<"Tutorial complete!">>
           /\ UNCHANGED tutorialStep
    /\ UNCHANGED <<currentScreen, gameMode, currentChallenge, score, messageTimer,
                   placedAtoms, bonds, builtMolecules, bondingMode, firstAtomForBond,
                   atomIdCounter, bondIdCounter, completionTimers, advanceTimers>>

handleTutorialClose ==
    /\ currentScreen = "game"
    /\ showTutorial
    /\ showTutorial' = FALSE
    /\ message' = <<"Tutorial skipped.">>
    /\ UNCHANGED <<currentScreen, gameMode, currentChallenge, score, messageTimer,
                   placedAtoms, bonds, builtMolecules, bondingMode, firstAtomForBond,
                   atomIdCounter, bondIdCounter, completionTimers, advanceTimers,
                   tutorialStep>>

\* The condition of the starter-atom effect, on the values of a render.
needsStarterAtoms(mode, atomCount, screen, step) ==
    mode = "tutorial" /\ atomCount = 0 /\ screen = "game" /\ step >= 2

\* The effect runs after a render in which one of its dependencies
\* [gameMode, placedAtoms.length, currentScreen, tutorialStep] changed, and
\* starts a chain of timers that call the addAtom of that render.
starterAtomEffect ==
    seedTimers' =
        IF /\ <<gameMode', Len(placedAtoms'), currentScreen', tutorialStep'>>
                  # <<gameMode, Len(placedAtoms), currentScreen, tutorialStep>>
           /\ needsStarterAtoms(gameMode', Len(placedAtoms'), currentScreen',
                                tutorialStep')
        THEN Append(seedTimers, [next |-> 1, gameMode |-> gameMode',
                                 showTutorial |-> showTutorial'])
        ELSE seedTimers

\* A timer of a chain fires: the addAtom of the render that started the
\* chain (its showMessage reads that render's gameMode and showTutorial),
\* then the timer for the chain's next atom.  The render that follows has
\* an atom, so the effect starts nothing.
seedTimerFires(k, position) ==
    /\ k \in DOMAIN seedTimers
    /\ LET chain == seedTimers[k]
           atomSymbol == StarterAtoms[chain.next]
       IN  /\ atomIdCounter' = atomIdCounter + 1
           /\ placedAtoms' = Append(placedAtoms,
                  [id |-> atomIdCounter + 1, symbol |-> atomSymbol,
                   position |-> position,
                   availableBonds |-> calculateAvailableBonds(ATOMS(atomSymbol), 0)])
           /\ IF ShowsMessage(chain.gameMode, chain.showTutorial)
              THEN message' = <<"Added atom", atomSymbol>> /\ messageTimer' = TRUE
              ELSE UNCHANGED <<message, messageTimer>>
           /\ seedTimers' =
                  IF chain.next < Len(StarterAtoms)
                  THEN [seedTimers EXCEPT ![k].next = chain.next + 1]
                  ELSE [i \in 1..(Len(seedTimers) - 1) |->
                           IF i < k THEN seedTimers[i] ELSE seedTimers[i + 1]]
    /\ UNCHANGED <<currentScreen, gameMode, currentChallenge, score, showTutorial, bonds,
                   builtMolecules, bondingMode, firstAtomForBond, bondIdCounter,
                   completionTimers, advanceTimers, tutorialStep>>

(***************************************************************************)
(* The specifications.  Each constrains every variable; the parts a        *)
(* specification is not about stay as they start.                          *)
(***************************************************************************)
EvalIdle ==
    /\ evalAtom1 = "H"
    /\ evalAtom2 = "H"
    /\ evalCanBond = << >>
    /\ evalBondType = << >>

CheckIdle ==
    /\ chkAtoms = << >>
    /\ chkBonds = << >>
    /\ chkBuilt = << >>
    /\ chkReport = << >>

\* The state of Block after construction (the useState initial values).
GameInit ==
    /\ currentScreen = "home"
    /\ gameMode = "tutorial"
    /\ currentChallenge = 0
    /\ score = 0
    /\ showTutorial = FALSE
    /\ message = NoMessage
    /\ messageTimer = FALSE
    /\ placedAtoms = << >>
    /\ bonds = << >>
    /\ builtMolecules = << >>
    /\ bondingMode = FALSE
    /\ firstAtomForBond = NoAtom
    /\ atomIdCounter = 0
    /\ bondIdCounter = 0
    /\ completionTimers = << >>
    /\ advanceTimers = << >>
    /\ tutorialStep = 0
    /\ seedTimers = << >>

CapIdle ==
    /\ capSymbol = "H"
    /\ capCount = 0
    /\ capMaxBonds = << >>
    /\ capAvailable = << >>

vars == <<evalVars, chkVars, gameVars, capVars, tutVars>>

EvalNext ==
    \/ CallCanBond /\ UNCHANGED <<chkVars, gameVars, capVars, tutVars>>
    \/ CallGetBondType /\ UNCHANGED <<chkVars, gameVars, capVars, tutVars>>

InitBond == EvalInit /\ CheckIdle /\ GameInit /\ CapIdle

SpecBond == InitBond /\ [][EvalNext]_vars

CheckNext == RunCheck /\ UNCHANGED <<evalVars, gameVars, capVars, tutVars>>

InitCheck == CheckInit /\ EvalIdle /\ GameInit /\ CapIdle

SpecCheck == InitCheck /\ [][CheckNext]_vars

CapNext ==
    \/ CallGetMaxBonds /\ UNCHANGED <<evalVars, chkVars, gameVars, tutVars>>
    \/ CallCalculateAvailableBonds /\ UNCHANGED <<evalVars, chkVars, gameVars, tutVars>>

InitCap == CapInit /\ EvalIdle /\ CheckIdle /\ GameInit

SpecCap == InitCap /\ [][CapNext]_vars

Init == GameInit /\ EvalIdle /\ CheckIdle /\ CapIdle

\* The bounds on a step that may create a bond: at most maxBondId bonds are
\* ever created, and at most MaxPending completion callbacks are pending.
WithinBondBounds(maxBondId) ==
    /\ bondIdCounter' <= maxBondId
    /\ Len(completionTimers') <= MaxPending

Next ==
    \/ \E mode \in GameModes :
           handleModeSelect(mode) /\ UNCHANGED <<evalVars, chkVars, capVars, seedTimers>>
    \/ handleBackToHome /\ UNCHANGED <<evalVars, chkVars, capVars, tutVars>>
    \/ \E atomSymbol \in GameSymbols : \E position \in AddPositions :
           /\ atomIdCounter < MaxAtomId
           /\ addAtom(atomSymbol, position) /\ UNCHANGED <<evalVars, chkVars, capVars, tutVars>>
    \/ toggleBondingMode /\ UNCHANGED <<evalVars, chkVars, capVars, tutVars>>
    \/ \E atomId \in AtomIds(placedAtoms) : \E button \in MouseButtons :
           /\ handleAtomClick(atomId, button) /\ UNCHANGED <<evalVars, chkVars, capVars, tutVars>>
           /\ WithinBondBounds(MaxBondId)
    \/ \E bondId \in 1..bondIdCounter : removeBond(bondId) /\ UNCHANGED <<evalVars, chkVars, capVars, tutVars>>
    \/ \E atomId \in AtomIds(placedAtoms) :
           deleteAtom(atomId) /\ UNCHANGED <<evalVars, chkVars, capVars, tutVars>>
    \/ \E atomId \in AtomIds(placedAtoms) : \E newPosition \in DragPositions :
           handleAtomDragEnd(atomId, newPosition) /\ UNCHANGED <<evalVars, chkVars, capVars, tutVars>>
    \/ handleReset /\ UNCHANGED <<evalVars, chkVars, capVars, tutVars>>
    \/ /\ currentChallenge < MaxChallenge \/ currentChallenge >= Len(MOLECULES) - 1
       /\ handleNextChallenge /\ UNCHANGED <<evalVars, chkVars, capVars, tutVars>>
    \/ completionTimerFires /\ UNCHANGED <<evalVars, chkVars, capVars, tutVars>>
    \/ advanceTimerFires /\ UNCHANGED <<evalVars, chkVars, capVars, tutVars>>
    \/ messageTimerFires /\ UNCHANGED <<evalVars, chkVars, capVars, tutVars>>

Spec == Init /\ [][Next]_vars

(***************************************************************************)
(* The scene in practice mode with room for a third atom: up to            *)
(* MaxLabAtoms atoms of LabSymbols are ever created, all at one place, a   *)
(* drag moves an atom out of bonding distance, up to MaxDragged atoms are  *)
(* away from that place at a time, and up to MaxLabBonds bonds are ever    *)
(* created.                                                                *)
(***************************************************************************)
MaxLabAtoms == 3

MaxLabBonds == 2

LabSymbols == {"H", "O", "He"}

LabAddPositions == {<<-4, -2, -2>>}

LabDragPositions == {<<5, -2, -2>>}

MaxDragged == 1

PracticeNext ==
    \/ handleModeSelect("practice") /\ UNCHANGED <<evalVars, chkVars, capVars, seedTimers>>
    \/ handleBackToHome /\ UNCHANGED <<evalVars, chkVars, capVars, tutVars>>
    \/ \E atomSymbol \in LabSymbols : \E position \in LabAddPositions :
           /\ atomIdCounter < MaxLabAtoms
           /\ addAtom(atomSymbol, position) /\ UNCHANGED <<evalVars, chkVars, capVars, tutVars>>
    \/ toggleBondingMode /\ UNCHANGED <<evalVars, chkVars, capVars, tutVars>>
    \/ \E atomId \in AtomIds(placedAtoms) : \E button \in MouseButtons :
           /\ handleAtomClick(atomId, button) /\ UNCHANGED <<evalVars, chkVars, capVars, tutVars>>
           /\ WithinBondBounds(MaxLabBonds)
    \/ \E bondId \in 1..bondIdCounter : removeBond(bondId) /\ UNCHANGED <<evalVars, chkVars, capVars, tutVars>>
    \/ \E atomId \in AtomIds(placedAtoms) :
           deleteAtom(atomId) /\ UNCHANGED <<evalVars, chkVars, capVars, tutVars>>
    \/ \E atomId \in AtomIds(placedAtoms) : \E newPosition \in LabDragPositions :
           /\ handleAtomDragEnd(atomId, newPosition) /\ UNCHANGED <<evalVars, chkVars, capVars, tutVars>>
           /\ Cardinality({i \in DOMAIN placedAtoms' :
                  placedAtoms'[i].position \notin LabAddPositions}) <= MaxDragged
    \/ handleReset /\ UNCHANGED <<evalVars, chkVars, capVars, tutVars>>
    \/ completionTimerFires /\ UNCHANGED <<evalVars, chkVars, capVars, tutVars>>
    \/ messageTimerFires /\ UNCHANGED <<evalVars, chkVars, capVars, tutVars>>

SpecPractice == Init /\ [][PracticeNext]_vars

(***************************************************************************)
(* The scene in all three modes, the tutorial with its modal and starter   *)
(* atoms included.                                                         *)
(***************************************************************************)
MaxModesAtoms == 3

MaxModesBonds == 1

MaxSeeding == 1

MaxTutorialStep == 2

AllModes == {"tutorial", "practice", "challenge"}

\* The symbols picked from the periodic table; oxygen comes as a starter atom.
ModesSymbols == {"H", "He"}

idle == UNCHANGED <<evalVars, chkVars, capVars>>

ModesNext ==
    \/ \E mode \in AllModes : handleModeSelect(mode) /\ starterAtomEffect /\ idle
    \/ handleBackToHome /\ UNCHANGED tutorialStep /\ starterAtomEffect /\ idle
    \/ /\ tutorialStep < MaxTutorialStep \/ tutorialStep >= TutorialStepCount - 1
       /\ handleTutorialNext /\ starterAtomEffect /\ idle
       /\ Len(seedTimers') <= MaxSeeding
    \/ handleTutorialClose /\ starterAtomEffect /\ idle
    \/ \E k \in DOMAIN seedTimers : \E position \in LabAddPositions :
           /\ atomIdCounter < MaxModesAtoms
           /\ seedTimerFires(k, position) /\ idle
    \/ \E atomSymbol \in ModesSymbols : \E position \in LabAddPositions :
           /\ pointerReachesScene
           /\ atomIdCounter < MaxModesAtoms
           /\ addAtom(atomSymbol, position)
           /\ UNCHANGED tutorialStep /\ starterAtomEffect /\ idle
    \/ /\ pointerReachesScene
       /\ toggleBondingMode /\ UNCHANGED tutorialStep /\ starterAtomEffect /\ idle
    \/ \E atomId \in AtomIds(placedAtoms) : \E button \in MouseButtons :
           /\ pointerReachesScene
           /\ handleAtomClick(atomId, button)
           /\ UNCHANGED tutorialStep /\ starterAtomEffect /\ idle
           /\ WithinBondBounds(MaxModesBonds)
    \/ \E bondId \in 1..bondIdCounter :
           /\ pointerReachesScene
           /\ removeBond(bondId) /\ UNCHANGED tutorialStep /\ starterAtomEffect /\ idle
    \/ \E atomId \in AtomIds(placedAtoms) :
           /\ pointerReachesScene
           /\ deleteAtom(atomId) /\ UNCHANGED tutorialStep /\ starterAtomEffect /\ idle
           /\ Len(seedTimers') <= MaxSeeding
    \/ \E atomId \in AtomIds(placedAtoms) : \E newPosition \in LabDragPositions :
           /\ pointerReachesScene
           /\ handleAtomDragEnd(atomId, newPosition)
           /\ UNCHANGED tutorialStep /\ starterAtomEffect /\ idle
           /\ Cardinality({i \in DOMAIN placedAtoms' :
                  placedAtoms'[i].position \notin LabAddPositions}) <= MaxDragged
    \/ /\ pointerReachesScene
       /\ handleReset /\ UNCHANGED tutorialStep /\ starterAtomEffect /\ idle
       /\ Len(seedTimers') <= MaxSeeding
    \/ /\ pointerReachesScene
       /\ currentChallenge < MaxChallenge \/ currentChallenge >= Len(MOLECULES) - 1
       /\ handleNextChallenge /\ UNCHANGED tutorialStep /\ starterAtomEffect /\ idle
    \/ completionTimerFires /\ UNCHANGED tutorialStep /\ starterAtomEffect /\ idle
    \/ advanceTimerFires /\ UNCHANGED tutorialStep /\ starterAtomEffect /\ idle
    \/ messageTimerFires /\ UNCHANGED tutorialStep /\ starterAtomEffect /\ idle

SpecModes == Init /\ [][ModesNext]_vars

(***************************************************************************)
(* Tutorial mode on its own, with room for a second chain of starter-atom  *)
(* timers.                                                                 *)
(***************************************************************************)
MaxSeededAtoms == 3

MaxSeedChains == 2

MaxSeedingStep == 3

MaxTutorialBonds == 1

TutorialSymbols == {"H"}

TutorialNext ==
    \/ handleModeSelect("tutorial") /\ starterAtomEffect /\ idle
    \/ handleBackToHome /\ UNCHANGED tutorialStep /\ starterAtomEffect /\ idle
    \/ /\ tutorialStep < MaxSeedingStep \/ tutorialStep >= TutorialStepCount - 1
       /\ handleTutorialNext /\ starterAtomEffect /\ idle
       /\ Len(seedTimers') <= MaxSeedChains
    \/ handleTutorialClose /\ starterAtomEffect /\ idle
    \/ \E k \in DOMAIN seedTimers : \E position \in LabAddPositions :
           /\ atomIdCounter < MaxSeededAtoms
           /\ seedTimerFires(k, position) /\ idle
    \/ \E atomSymbol \in TutorialSymbols : \E position \in LabAddPositions :
           /\ pointerReachesScene
           /\ atomIdCounter < MaxSeededAtoms
           /\ addAtom(atomSymbol, position)
           /\ UNCHANGED tutorialStep /\ starterAtomEffect /\ idle
    \/ /\ pointerReachesScene
       /\ toggleBondingMode /\ UNCHANGED tutorialStep /\ starterAtomEffect /\ idle
    \/ \E atomId \in AtomIds(placedAtoms) : \E button \in MouseButtons :
           /\ pointerReachesScene
           /\ handleAtomClick(atomId, button)
           /\ UNCHANGED tutorialStep /\ starterAtomEffect /\ idle
           /\ WithinBondBounds(MaxTutorialBonds)
    \/ \E bondId \in 1..bondIdCounter :
           /\ pointerReachesScene
           /\ removeBond(bondId) /\ UNCHANGED tutorialStep /\ starterAtomEffect /\ idle
    \/ \E atomId \in AtomIds(placedAtoms) :
           /\ pointerReachesScene
           /\ deleteAtom(atomId) /\ UNCHANGED tutorialStep /\ starterAtomEffect /\ idle
           /\ Len(seedTimers') <= MaxSeedChains
    \/ \E atomId \in AtomIds(placedAtoms) : \E newPosition \in LabDragPositions :
           /\ pointerReachesScene
           /\ handleAtomDragEnd(atomId, newPosition)
           /\ UNCHANGED tutorialStep /\ starterAtomEffect /\ idle
           /\ Cardinality({i \in DOMAIN placedAtoms' :
                  placedAtoms'[i].position \notin LabAddPositions}) <= MaxDragged
    \/ /\ pointerReachesScene
       /\ handleReset /\ UNCHANGED tutorialStep /\ starterAtomEffect /\ idle
       /\ Len(seedTimers') <= MaxSeedChains
    \/ completionTimerFires /\ UNCHANGED tutorialStep /\ starterAtomEffect /\ idle
    \/ messageTimerFires /\ UNCHANGED tutorialStep /\ starterAtomEffect /\ idle

SpecTutorial == Init /\ [][TutorialNext]_vars

(***************************************************************************)
(* Challenge mode on its own, through the whole catalog, with room for a   *)
(* second pending completion callback: up to MaxRaceAtoms atoms of         *)
(* RaceSymbols and up to MaxRaceBonds bonds are ever created, up to        *)
(* MaxRacePending completion callbacks are pending at a time, and the      *)
(* challenge index is followed up to MaxChallengeIndex.                    *)
(***************************************************************************)
MaxRaceAtoms == 2

MaxRaceBonds == 2

MaxRacePending == 2

MaxChallengeIndex == 10

RaceSymbols == {"H"}

tutorialIdle == UNCHANGED <<evalVars, chkVars, capVars, tutVars>>

ChallengeNext ==
    \/ handleModeSelect("challenge") /\ UNCHANGED <<evalVars, chkVars, capVars, seedTimers>>
    \/ handleBackToHome /\ tutorialIdle
    \/ \E atomSymbol \in RaceSymbols : \E position \in LabAddPositions :
           /\ atomIdCounter < MaxRaceAtoms
           /\ addAtom(atomSymbol, position) /\ tutorialIdle
    \/ toggleBondingMode /\ tutorialIdle
    \/ \E atomId \in AtomIds(placedAtoms) : \E button \in MouseButtons :
           /\ handleAtomClick(atomId, button) /\ tutorialIdle
           /\ bondIdCounter' <= MaxRaceBonds
           /\ Len(completionTimers') <= MaxRacePending
    \/ \E bondId \in 1..bondIdCounter : removeBond(bondId) /\ tutorialIdle
    \/ \E atomId \in AtomIds(placedAtoms) : deleteAtom(atomId) /\ tutorialIdle
    \/ \E atomId \in AtomIds(placedAtoms) : \E newPosition \in LabDragPositions :
           /\ handleAtomDragEnd(atomId, newPosition) /\ tutorialIdle
           /\ Cardinality({i \in DOMAIN placedAtoms' :
                  placedAtoms'[i].position \notin LabAddPositions}) <= MaxDragged
    \/ handleReset /\ tutorialIdle
    \/ handleNextChallenge /\ tutorialIdle
    \/ completionTimerFires /\ tutorialIdle
    \/ /\ currentChallenge < MaxChallengeIndex
       /\ advanceTimerFires /\ tutorialIdle
    \/ messageTimerFires /\ tutorialIdle

SpecChallenge == Init /\ [][ChallengeNext]_vars

(***************************************************************************)
(* Properties of the rule evaluator (SpecBond).                            *)
(***************************************************************************)

\* C1: canBond is symmetric: whatever canBond returned for a pair (a, b) of
\* elements of the table is what it returns for (b, a).
CanBondSymmetric ==
    evalCanBond # << >> =>
        evalCanBond[1] = canBond(ATOMS(evalAtom2), ATOMS(evalAtom1))

\* canBond was called on (F, Na), a pair only the metal/nonmetal rule accepts.
CanBondSymmetricWitness ==
    evalAtom1 = "F" /\ evalAtom2 = "Na" /\ evalCanBond = <<TRUE>>

\* C2: canBond is false whenever either argument is one of He, Ne, Ar, Kr,
\* Xe, Rn, Og, whatever the other element is and whichever comes first.
NobleGasNeverBonds ==
    LET noble == {"He", "Ne", "Ar", "Kr", "Xe", "Rn", "Og"}
    IN  (evalCanBond # << >> /\ (evalAtom1 \in noble \/ evalAtom2 \in noble)) =>
            evalCanBond = <<FALSE>>

\* canBond was called on (O, Og); Og has electronegativity 2.5 in the table.
NobleGasNeverBondsWitness ==
    /\ evalAtom1 = "O" /\ evalAtom2 = "Og" /\ evalCanBond = <<FALSE>>
    /\ electronegativityTenths["Og"] > 0

\* C3: getBondType returns ionic exactly when the absolute difference of the
\* two electronegativities of the table is strictly greater than 1.7, and
\* covalent otherwise; a difference of exactly 1.7 is covalent.
BondTypeByTableDifference ==
    LET d == electronegativityTenths[evalAtom1] - electronegativityTenths[evalAtom2]
        absd == IF d < 0 THEN 0 - d ELSE d
    IN  evalBondType # << >> =>
            evalBondType[1] = (IF absd > 17 THEN "ionic" ELSE "covalent")

\* C4: getBondType is symmetric: what it returned for (a, b) is what it
\* returns for (b, a).
BondTypeSymmetric ==
    evalBondType # << >> =>
        evalBondType[1] = getBondType(ATOMS(evalAtom2), ATOMS(evalAtom1))

\* getBondType was called on (Na, Cl), whose difference is negative, and on
\* no other order returned ionic.
BondTypeSymmetricWitness ==
    evalAtom1 = "Na" /\ evalAtom2 = "Cl" /\ evalBondType = <<"ionic">>

(***************************************************************************)
(* Properties of the completion check (SpecCheck).                         *)
(***************************************************************************)
\* The scene holds the same multiset of element symbols as the template.
SameComposition(molecule, currentAtoms) ==
    /\ Len(currentAtoms) = Len(molecule.atoms)
    /\ \A symbol \in Symbols :
           CountOf(symbol, SymbolsOf(currentAtoms)) = CountOf(symbol, molecule.atoms)

SymbolOfId(currentAtoms, atomId) ==
    LET i == CHOOSE k \in DOMAIN currentAtoms : currentAtoms[k].id = atomId
    IN  currentAtoms[i].symbol

\* Two hydrogens and one oxygen, and two bonds, each joining a hydrogen to the oxygen.
IsWaterScene(currentAtoms, currentBonds) ==
    /\ Len(currentAtoms) = 3
    /\ CountOf("H", SymbolsOf(currentAtoms)) = 2
    /\ CountOf("O", SymbolsOf(currentAtoms)) = 1
    /\ Len(currentBonds) = 2
    /\ \A k \in DOMAIN currentBonds :
           {SymbolOfId(currentAtoms, currentBonds[k].atom1Id),
            SymbolOfId(currentAtoms, currentBonds[k].atom2Id)} = {"H", "O"}

ChkReported == IF chkReport = << >> THEN {} ELSE SeqRange(chkReport[1])

\* C7: on a scene of exactly two hydrogens and one oxygen with exactly two
\* bonds, each joining one hydrogen to the oxygen, and Water not yet
\* completed, the check reports the Water template.
WaterIsReported ==
    (/\ chkReport # << >>
     /\ IsWaterScene(chkAtoms, chkBonds)
     /\ "H₂O" \notin SeqRange(chkBuilt)) => "H₂O" \in ChkReported

\* The check ran on the atoms H, H, O in this order (not the order of the
\* template) with nothing completed, and reported Water.
WaterIsReportedWitness ==
    /\ chkReport = << <<"H₂O">> >>
    /\ SymbolsOf(chkAtoms) = <<"H", "H", "O">>
    /\ IsWaterScene(chkAtoms, chkBonds)
    /\ chkBuilt = << >>

\* C8: for every template other than Water whose composition the scene
\* matches exactly, the template is reported iff the number of bonds of the
\* scene is the number of atoms of the template minus 1 and the template is
\* not already completed; so two hydrogens without a bond report nothing.
BondCountDecides ==
    chkReport # << >> =>
        \A m \in DOMAIN MOLECULES :
            (MOLECULES[m].name # "Water" /\ SameComposition(MOLECULES[m], chkAtoms)) =>
                (MOLECULES[m].formula \in ChkReported <=>
                    (/\ Len(chkBonds) = Len(MOLECULES[m].atoms) - 1
                     /\ MOLECULES[m].formula \notin SeqRange(chkBuilt)))

\* The check ran on two hydrogens without a bond, nothing completed, and
\* reported nothing.
BondCountDecidesWitness ==
    /\ chkReport = << << >> >>
    /\ SymbolsOf(chkAtoms) = <<"H", "H">>
    /\ chkBonds = << >>
    /\ chkBuilt = << >>

\* C9: one completion check never reports a formula of the completed list
\* it is given.
NeverReportsCompleted ==
    ChkReported \cap SeqRange(chkBuilt) = {}

\* The check ran on two bonded hydrogens with H₂ already completed and
\* reported nothing.
NeverReportsCompletedWitness ==
    /\ chkReport = << << >> >>
    /\ SymbolsOf(chkAtoms) = <<"H", "H">>
    /\ Len(chkBonds) = 1
    /\ chkBuilt = <<"H₂">>

\* C10: the composition condition of the check holds for a template iff the
\* placed atoms have exactly the template's multiset of symbols, and a
\* template is only reported for such a scene: extra atoms prevent the match.
CompositionIsExact ==
    \A m \in DOMAIN MOLECULES :
        /\ hasExactAtoms(MOLECULES[m], chkAtoms) <=> SameComposition(MOLECULES[m], chkAtoms)
        /\ MOLECULES[m].formula \in ChkReported => SameComposition(MOLECULES[m], chkAtoms)

\* The check ran on two bonded hydrogens and an extra oxygen, nothing
\* completed, and did not report H₂.
CompositionIsExactWitness ==
    /\ chkReport # << >>
    /\ "H₂" \notin ChkReported
    /\ SymbolsOf(chkAtoms) = <<"H", "H", "O">>
    /\ Len(chkBonds) = 1
    /\ \A k \in DOMAIN chkBonds :
           SymbolOfId(chkAtoms, chkBonds[k].atom1Id) = "H"
           /\ SymbolOfId(chkAtoms, chkBonds[k].atom2Id) = "H"
    /\ chkBuilt = << >>

(***************************************************************************)
(* Properties of the scene (Spec).                                         *)
(***************************************************************************)
Joins(bond, atom1Id, atom2Id) ==
    {bond.atom1Id, bond.atom2Id} = {atom1Id, atom2Id}

NoDuplicateBond ==
    \A i, j \in DOMAIN bonds :
        i # j => ~Joins(bonds[i], bonds[j].atom1Id, bonds[j].atom2Id)

\* A right-click in bonding mode that calls createBond(firstAtomForBond, atomId).
CreateBondCall(atomId) ==
    /\ bondingMode
    /\ firstAtomForBond # NoAtom
    /\ firstAtomForBond # atomId
    /\ handleAtomClick(atomId, 2)

DuplicateAttemptRejected ==
    \A atomId \in AtomIds(placedAtoms) :
        (/\ CreateBondCall(atomId)
         /\ \E k \in DOMAIN bonds : Joins(bonds[k], firstAtomForBond, atomId))
            => /\ bonds' = bonds
               /\ placedAtoms' = placedAtoms
               /\ score' = score

\* C5: in every state reachable by addAtom, createBond, removeBond,
\* deleteAtom, a drag, a reset and a next-challenge (and the other handlers
\* and timers of the scene), no two bonds join the same unordered pair of
\* atoms, and a createBond on a pair that already has a bond leaves the
\* bonds as they are, whichever of the two atoms is given first.
AtMostOneBondPerPair ==
    []NoDuplicateBond /\ [][DuplicateAttemptRejected]_vars

\* A duplicate attempt has been rejected: the pair has its one bond, both
\* atoms still have a slot, and the message is that of the bondExists check.
AtMostOneBondPerPairWitness ==
    /\ message = <<"Bond already exists between these atoms!">>
    /\ Len(bonds) = 1
    /\ \A i \in DOMAIN placedAtoms :
           /\ placedAtoms[i].id \in {bonds[1].atom1Id, bonds[1].atom2Id}
           /\ placedAtoms[i].availableBonds > 0
    /\ Len(placedAtoms) = 2

\* The other checks of createBond pass for the pair: both atoms are placed,
\* no bond joins them, both have a slot left and their elements can bond.
OtherChecksPass(atom1Id, atom2Id) ==
    /\ HasAtom(placedAtoms, atom1Id)
    /\ HasAtom(placedAtoms, atom2Id)
    /\ atom1Id # atom2Id
    /\ ~\E k \in DOMAIN bonds : Joins(bonds[k], atom1Id, atom2Id)
    /\ AtomById(placedAtoms, atom1Id).availableBonds > 0
    /\ AtomById(placedAtoms, atom2Id).availableBonds > 0
    /\ canBond(ATOMS(AtomById(placedAtoms, atom1Id).symbol),
               ATOMS(AtomById(placedAtoms, atom2Id).symbol))

\* Distance above 4, in the units of the positions (halves): squared, above 64.
FartherThanFour(atom1Id, atom2Id) ==
    SquaredDistance(AtomById(placedAtoms, atom1Id).position,
                    AtomById(placedAtoms, atom2Id).position) > 64

DistanceDecidesStep ==
    \A atomId \in AtomIds(placedAtoms) :
        (CreateBondCall(atomId) /\ OtherChecksPass(firstAtomForBond, atomId))
            => IF FartherThanFour(firstAtomForBond, atomId)
               THEN bonds' = bonds /\ placedAtoms' = placedAtoms
               ELSE /\ Len(bonds') = Len(bonds) + 1
                    /\ Joins(bonds'[Len(bonds')], firstAtomForBond, atomId)

\* C6: a createBond on two distinct placed atoms that passes every other
\* check (no bond between them, both with a slot left, canBond true)
\* creates no bond when their distance exceeds 4, and creates the bond
\* when their distance is at most 4.
DistanceDecides == [][DistanceDecidesStep]_vars

\* A createBond has been rejected for the distance alone: the message is
\* that of the distance check and the scene holds a pair more than 4 apart
\* that passes every other check.
DistanceDecidesWitness ==
    /\ message = <<"Atoms are too far apart!">>
    /\ \E a, b \in AtomIds(placedAtoms) :
           OtherChecksPass(a, b) /\ FartherThanFour(a, b)

(***************************************************************************)
(* Properties of the scene with three atoms (SpecPractice).                *)
(***************************************************************************)
BondEndpointsPlaced ==
    \A k \in DOMAIN bonds :
        /\ HasAtom(placedAtoms, bonds[k].atom1Id)
        /\ HasAtom(placedAtoms, bonds[k].atom2Id)

BondedTo(atom1Id, atom2Id) ==
    \E k \in DOMAIN bonds : Joins(bonds[k], atom1Id, atom2Id)

DeleteCascadeStep ==
    \A atomId \in AtomIds(placedAtoms) :
        deleteAtom(atomId) =>
            /\ ~HasAtom(placedAtoms', atomId)
            /\ \A k \in DOMAIN bonds' :
                   bonds'[k].atom1Id # atomId /\ bonds'[k].atom2Id # atomId
            /\ AtomIds(placedAtoms') = AtomIds(placedAtoms) \ {atomId}
            /\ \A other \in AtomIds(placedAtoms) \ {atomId} :
                   AtomById(placedAtoms', other).availableBonds =
                       AtomById(placedAtoms, other).availableBonds
                           + (IF BondedTo(atomId, other) THEN 1 ELSE 0)

\* C11: every bond joins two placed atoms in every reachable state, and a
\* deleteAtom(a) leaves a unplaced and no bond at a, raises the available
\* slots of every atom that was bonded to a by one, and leaves the available
\* slots of the other atoms as they were.
DeleteCascades == []BondEndpointsPlaced /\ [][DeleteCascadeStep]_vars

\* An atom has been deleted from a chain of three oxygens: the two that are
\* left keep their one bond, and each has one slot left.
DeleteCascadesWitness ==
    /\ message = <<"atom deleted!", "O">>
    /\ SymbolsOf(placedAtoms) = <<"O", "O">>
    /\ Len(bonds) = 1
    /\ bondIdCounter = 2
    /\ completionTimers = << >>
    /\ builtMolecules = << >>
    /\ \A i \in DOMAIN placedAtoms : placedAtoms[i].availableBonds = 1

NoSelfBond == \A k \in DOMAIN bonds : bonds[k].atom1Id # bonds[k].atom2Id

SecondClickOnFirstStep ==
    \A atomId \in AtomIds(placedAtoms) :
        (bondingMode /\ firstAtomForBond = atomId /\ handleAtomClick(atomId, 2))
            => bonds' = bonds /\ placedAtoms' = placedAtoms

\* C12: no bond joins an atom to itself in any reachable state, and a second
\* bonding click on the atom already chosen as first endpoint creates no
\* bond.
NoBondToItself == []NoSelfBond /\ [][SecondClickOnFirstStep]_vars

\* The first endpoint has been clicked again: the attempt is cancelled, and
\* the scene holds an oxygen with both slots free and no bond (oxygen can
\* bond with oxygen).
NoBondToItselfWitness ==
    /\ message = <<"Bond creation cancelled.">>
    /\ bondingMode
    /\ firstAtomForBond = NoAtom
    /\ bonds = << >>
    /\ Len(placedAtoms) = 1
    /\ placedAtoms[1].symbol = "O"
    /\ placedAtoms[1].availableBonds = 2
    /\ canBond(ATOMS("O"), ATOMS("O"))

\* The bonds at an atom, counted from the bond list.
BondCountAt(atomId) ==
    Cardinality({k \in DOMAIN bonds :
        bonds[k].atom1Id = atomId \/ bonds[k].atom2Id = atomId})

WithinCapacity ==
    \A i \in DOMAIN placedAtoms :
        /\ BondCountAt(placedAtoms[i].id)
               <= calculateAvailableBonds(ATOMS(placedAtoms[i].symbol), 0)
        /\ BondCountAt(placedAtoms[i].id) <= getMaxBonds(placedAtoms[i].symbol)

ExhaustedEndpointStep ==
    \A atomId \in AtomIds(placedAtoms) :
        (/\ CreateBondCall(atomId)
         /\ HasAtom(placedAtoms, firstAtomForBond)
         /\ \/ AtomById(placedAtoms, firstAtomForBond).availableBonds = 0
            \/ AtomById(placedAtoms, atomId).availableBonds = 0)
            => bonds' = bonds /\ placedAtoms' = placedAtoms

\* C13: in every reachable state the number of bonds at a placed atom is at
\* most the maximum bond count of its element (that of the scene's table,
\* and so that of getMaxBonds), and a createBond with an endpoint that has
\* no available slot creates no bond.
CapacityRespected == []WithinCapacity /\ [][ExhaustedEndpointStep]_vars

\* A createBond between a free oxygen and a hydrogen whose one bond is with
\* a third atom has been rejected for the hydrogen's capacity.
CapacityRespectedWitness ==
    /\ message = <<"cannot form more bonds!", "H">>
    /\ firstAtomForBond = NoAtom
    /\ bondingMode
    /\ Len(bonds) = 1
    /\ \E i, j \in DOMAIN placedAtoms :
           /\ placedAtoms[i].symbol = "H"
           /\ placedAtoms[i].availableBonds = 0
           /\ BondCountAt(placedAtoms[i].id) = 1
           /\ placedAtoms[j].symbol = "O"
           /\ placedAtoms[j].availableBonds = 2
           /\ ~BondedTo(placedAtoms[i].id, placedAtoms[j].id)
           /\ ~TooFar(placedAtoms[i].position, placedAtoms[j].position)

\* C14: for every element of the element table and every bond count n >= 0,
\* calculateAvailableBonds(element, n) = max(0, getMaxBonds(symbol) - n).
AvailableFromMaxBondsTable ==
    (capSymbol \in Symbols /\ capMaxBonds # << >> /\ capAvailable # << >>)
        => capAvailable[1] = Max(0, capMaxBonds[1] - capCount)

\* C18: getMaxBonds returns 1 for every symbol that has no entry in its
\* lookup table, whether or not the symbol is an element of the element
\* table, and 1, 2, 3, 4 for H, O, N, C.
UnknownSymbolDefaultsToOne ==
    capMaxBonds # << >> =>
        /\ capSymbol \notin DOMAIN maxBondsMap => capMaxBonds[1] = 1
        /\ capSymbol = "H" => capMaxBonds[1] = 1
        /\ capSymbol = "O" => capMaxBonds[1] = 2
        /\ capSymbol = "N" => capMaxBonds[1] = 3
        /\ capSymbol = "C" => capMaxBonds[1] = 4

\* C15: in every state reachable by addAtom, createBond, removeBond and
\* deleteAtom, the stored availableBonds of each placed atom equals
\* max(0, its element's maximum - the number of bonds now at it), and is
\* never negative.
AvailableBondsNeverStale ==
    \A i \in DOMAIN placedAtoms :
        /\ placedAtoms[i].availableBonds >= 0
        /\ placedAtoms[i].availableBonds =
               Max(0, calculateAvailableBonds(ATOMS(placedAtoms[i].symbol), 0)
                          - BondCountAt(placedAtoms[i].id))

\* An oxygen holds one bond after a second one of it was removed, next to a
\* hydrogen freed by the removal.
AvailableBondsNeverStaleWitness ==
    /\ message = <<"Bond removed!">>
    /\ Len(bonds) = 1
    /\ bondIdCounter = 2
    /\ \E i, j \in DOMAIN placedAtoms :
           /\ placedAtoms[i].symbol = "O"
           /\ BondCountAt(placedAtoms[i].id) = 1
           /\ placedAtoms[i].availableBonds = 1
           /\ placedAtoms[j].symbol = "H"
           /\ BondCountAt(placedAtoms[j].id) = 0
           /\ placedAtoms[j].availableBonds = 1

\* The reason of the first check that fails for a pair of placed atoms, in
\* the order duplicate, capacity, compatibility, distance; << >> when none.
FirstFailingReason(atom1Id, atom2Id) ==
    LET atom1 == AtomById(placedAtoms, atom1Id)
        atom2 == AtomById(placedAtoms, atom2Id)
    IN  IF \E k \in DOMAIN bonds : Joins(bonds[k], atom1Id, atom2Id)
        THEN <<"Bond already exists between these atoms!">>
        ELSE IF atom1.availableBonds = 0 THEN <<"cannot form more bonds!", atom1.symbol>>
        ELSE IF atom2.availableBonds = 0 THEN <<"cannot form more bonds!", atom2.symbol>>
        ELSE IF ~canBond(ATOMS(atom1.symbol), ATOMS(atom2.symbol))
        THEN <<"cannot bond together!", atom1.symbol, atom2.symbol>>
        ELSE IF FartherThanFour(atom1Id, atom2Id) THEN <<"Atoms are too far apart!">>
        ELSE << >>

ReasonTexts ==
    {"Bond already exists between these atoms!", "cannot form more bonds!",
     "cannot bond together!", "Atoms are too far apart!"}

RejectionSurfacedStep ==
    \A atomId \in AtomIds(placedAtoms) :
        (/\ CreateBondCall(atomId)
         /\ HasAtom(placedAtoms, firstAtomForBond)
         /\ bonds' = bonds)
            => /\ message' = FirstFailingReason(firstAtomForBond, atomId)
               /\ message' # NoMessage
               /\ message'[1] \in ReasonTexts
               /\ messageTimer'

ChecksResultingScene ==
    /\ Len(completionTimers') = Len(completionTimers) + 1
    /\ completionTimers'[Len(completionTimers')].bonds = bonds'

BondChangeCheckedStep ==
    /\ \A atomId \in AtomIds(placedAtoms) :
           (CreateBondCall(atomId) /\ bonds' # bonds) => ChecksResultingScene
    /\ \A bondId \in 1..bondIdCounter :
           removeBond(bondId) => ChecksResultingScene
    /\ \A atomId \in AtomIds(placedAtoms) :
           (deleteAtom(atomId) /\ bonds' # bonds) => ChecksResultingScene

\* C17: the completion check is run after every operation that changes the
\* set of bonds (createBond, removeBond, deleteAtom of a bonded atom), on
\* the scene that results from it.
CheckedAfterEveryBondChange == [][BondChangeCheckedStep]_vars

\* C19: Water is reported only for a scene with exactly two hydrogens
\* whose oxygen has exactly 2 bonds, over the scenes the bond-creation
\* protocol can build (the catalog spells the formula with a subscript, so
\* the check decides Water by its general rule).
WaterOnlyWhenOxygenBondedTwice ==
    "H₂O" \in ChkReported =>
        /\ CountOf("H", SymbolsOf(chkAtoms)) = 2
        /\ CountOf("O", SymbolsOf(chkAtoms)) = 1
        /\ \A i \in DOMAIN chkAtoms :
               chkAtoms[i].symbol = "O" =>
                   Cardinality(BondsAt(chkAtoms[i].id, chkBonds)) = 2

\* The check reported Water on a scene whose second bond was created from
\* the hydrogen to the oxygen.
WaterOnlyWhenOxygenBondedTwiceWitness ==
    /\ "H₂O" \in ChkReported
    /\ Len(chkBonds) = 2
    /\ SymbolOfId(chkAtoms, chkBonds[2].atom1Id) = "O"
    /\ SymbolOfId(chkAtoms, chkBonds[2].atom2Id) = "H"
    /\ SymbolOfId(chkAtoms, chkBonds[1].atom1Id) = "H"
    /\ \A i \in DOMAIN chkAtoms : chkAtoms[i].availableBonds = 0

\* Some set of bonds createBond accepts on the atoms of a template, placed
\* within bonding distance, makes the completion check report the template.
Completable(molecule) ==
    \E pairs \in BondPairLists(molecule.atoms, 1, 2, << >>) :
        molecule.formula \in SeqRange(FormulasOf(
            checkMoleculeCompletion(SceneAtoms(molecule.atoms, pairs),
                                    SceneBonds(molecule.atoms, pairs), << >>)))

\* C20: every template of the catalog can be completed by addAtom and
\* createBond from the empty scene, under the maximum bond counts and the
\* canBond rules createBond applies: whichever template's atoms have been
\* placed, some bonds createBond accepts on them complete the template.
EveryTemplateCompletable ==
    \A m \in DOMAIN MOLECULES :
        SymbolsOf(chkAtoms) = MOLECULES[m].atoms => Completable(MOLECULES[m])

NobleGasSymbols == {"He", "Ne", "Ar", "Kr", "Xe", "Rn", "Og"}

HydrogenPartners == {"H", "C", "N", "O", "F", "S", "Cl", "Br", "I"}

CarbonPartners == {"C", "N", "O", "F", "S", "Cl", "Br", "I", "Si", "P"}

\* The element of the evaluated pair that is not the given one (the given
\* one itself when both are).
OtherOf(symbol) == IF evalAtom1 = symbol THEN evalAtom2 ELSE evalAtom1

\* C21: for a pair without noble gas that contains H, canBond is true iff
\* the other element is H, C, N, O, F, S, Cl, Br or I; for a pair without
\* noble gas or H that contains C, it is true iff the other element is C,
\* N, O, F, S, Cl, Br, I, Si or P: no later rule accepts a pair these
\* rules declined.
HydrogenAndCarbonDecide ==
    (evalCanBond # << >> /\ {evalAtom1, evalAtom2} \cap NobleGasSymbols = {}) =>
        /\ "H" \in {evalAtom1, evalAtom2} =>
               (evalCanBond[1] <=> OtherOf("H") \in HydrogenPartners)
        /\ ("C" \in {evalAtom1, evalAtom2} /\ "H" \notin {evalAtom1, evalAtom2}) =>
               (evalCanBond[1] <=> OtherOf("C") \in CarbonPartners)

\* canBond was called on sodium and hydrogen, which the fallback on
\* electronegativity would accept, and returned false.
HydrogenAndCarbonDecideWitness ==
    /\ evalAtom1 = "Na"
    /\ evalAtom2 = "H"
    /\ evalCanBond = <<FALSE>>

BondsWellFormed ==
    \A k \in DOMAIN bonds :
        /\ bonds[k].strength = 1
        /\ HasAtom(placedAtoms, bonds[k].atom1Id)
        /\ HasAtom(placedAtoms, bonds[k].atom2Id)
        /\ bonds[k].type =
               getBondType(ATOMS(AtomById(placedAtoms, bonds[k].atom1Id).symbol),
                           ATOMS(AtomById(placedAtoms, bonds[k].atom2Id).symbol))

AcceptedBondStep ==
    \A atomId \in AtomIds(placedAtoms) :
        (CreateBondCall(atomId) /\ bonds' # bonds) =>
            /\ Len(bonds') = Len(bonds) + 1
            /\ \A k \in DOMAIN bonds : bonds'[k] = bonds[k]
            /\ Joins(bonds'[Len(bonds')], firstAtomForBond, atomId)

\* C22: in every reachable state each bond has strength 1 and the category
\* getBondType gives for the elements of its two endpoints; an accepted
\* createBond adds exactly one bond and changes no other bond.
BondsHaveTypeAndStrength == []BondsWellFormed /\ [][AcceptedBondStep]_vars

\* The oxygen of a scene holds two covalent bonds, the second one created
\* while the first one existed.
BondsHaveTypeAndStrengthWitness ==
    /\ Len(bonds) = 2
    /\ message = <<"bond created!", "covalent", "O", "H">>
    /\ bonds[1].type = "covalent" /\ bonds[2].type = "covalent"
    /\ bonds[1].id = 1 /\ bonds[2].id = 2
    /\ \E i \in DOMAIN placedAtoms :
           placedAtoms[i].symbol = "O" /\ BondCountAt(placedAtoms[i].id) = 2

\* An atom as it is apart from where it is.
WithoutPosition(atom) ==
    [id |-> atom.id, symbol |-> atom.symbol, availableBonds |-> atom.availableBonds]

DragMovesOnlyStep ==
    \A atomId \in AtomIds(placedAtoms) : \A newPosition \in LabDragPositions :
        handleAtomDragEnd(atomId, newPosition) =>
            /\ bonds' = bonds
            /\ score' = score
            /\ builtMolecules' = builtMolecules
            /\ completionTimers' = completionTimers
            /\ DOMAIN placedAtoms' = DOMAIN placedAtoms
            /\ \A i \in DOMAIN placedAtoms :
                   /\ WithoutPosition(placedAtoms'[i]) = WithoutPosition(placedAtoms[i])
                   /\ placedAtoms[i].id # atomId =>
                          placedAtoms'[i].position = placedAtoms[i].position
                   /\ placedAtoms[i].id = atomId =>
                          placedAtoms'[i].position = newPosition

\* C23: moving an atom changes only that atom's position: the bonds, every
\* atom's availableBonds, the score and the completed list stay as they
\* are, so a bond persists when an endpoint is moved out of the threshold.
DragMovesOnly == [][DragMovesOnlyStep]_vars

\* A hydrogen and an oxygen are bonded and farther apart than the
\* threshold, the hydrogen having been dragged away.
DragMovesOnlyWitness ==
    /\ Len(bonds) = 1
    /\ \E i, j \in DOMAIN placedAtoms :
           /\ placedAtoms[i].symbol = "H"
           /\ placedAtoms[j].symbol = "O"
           /\ Joins(bonds[1], placedAtoms[i].id, placedAtoms[j].id)
           /\ placedAtoms[i].position \in LabDragPositions
           /\ placedAtoms[j].position \in LabAddPositions
           /\ TooFar(placedAtoms[i].position, placedAtoms[j].position)
           /\ placedAtoms[i].availableBonds = 0
           /\ placedAtoms[j].availableBonds = 1

\* C24: in tutorial mode, whatever the timing of the Next clicks relative
\* to the starter-atom timers, no chain of timers is started while another
\* is pending, the scene under the modal never holds more than two
\* hydrogens and one oxygen, and once the timers have run it holds exactly
\* H, H, O.
SeededExactlyOnce ==
    (gameMode = "tutorial" /\ currentScreen = "game" /\ showTutorial) =>
        /\ Len(seedTimers) <= 1
        /\ CountOf("H", SymbolsOf(placedAtoms)) <= 2
        /\ CountOf("O", SymbolsOf(placedAtoms)) <= 1
        /\ (seedTimers = << >> /\ tutorialStep >= 2) =>
               SymbolsOf(placedAtoms) = <<"H", "H", "O">>


\* C25: whenever a formula is added to the completed list and 100 points
\* are awarded, the scene at that moment has the template's composition and
\* its number of bonds, whatever happened between the accepted createBond
\* and its delayed check.
SceneSatisfies(formula) ==
    \E m \in DOMAIN MOLECULES :
        /\ MOLECULES[m].formula = formula
        /\ hasExactAtoms(MOLECULES[m], placedAtoms)
        /\ hasCorrectBonds(MOLECULES[m], placedAtoms, bonds)

AwardStep ==
    /\ completionTimerFires
    /\ Len(builtMolecules') > Len(builtMolecules)

AwardedSceneSatisfiesStep ==
    AwardStep =>
        /\ score' = score + 100 * (Len(builtMolecules') - Len(builtMolecules))
        /\ \A k \in (Len(builtMolecules) + 1)..Len(builtMolecules') :
               SceneSatisfies(builtMolecules'[k])

AwardedSceneSatisfies == [][AwardedSceneSatisfiesStep]_vars


\* C26: after any interleaving of createBond, removeBond and the delayed
\* checks, the completed list holds each formula at most once (so that the
\* 100 points of a formula are awarded at most once between two resets).
CompletedAtMostOnce ==
    \A i, j \in DOMAIN builtMolecules :
        builtMolecules[i] = builtMolecules[j] => i = j

\* C27: the challenge index always satisfies
\* 0 <= currentChallenge <= MOLECULES.length - 1, also when a delayed
\* auto-advance fires after the Next Challenge button or another
\* auto-advance.
ChallengeIndexInCatalog ==
    currentChallenge \in 0..(Len(MOLECULES) - 1)


\* C28: whenever checkMoleculeCompletion reports a template for a scene
\* whose bonds createBond accepted, the bonds form a connected graph over
\* all the placed atoms.
NeighboursOf(atomIds, currentBonds) ==
    {currentBonds[k].atom2Id : k \in {b \in DOMAIN currentBonds :
                                          currentBonds[b].atom1Id \in atomIds}}
    \cup {currentBonds[k].atom1Id : k \in {b \in DOMAIN currentBonds :
                                               currentBonds[b].atom2Id \in atomIds}}

RECURSIVE ReachedWithin(_, _, _)
ReachedWithin(atomIds, currentBonds, steps) ==
    IF steps = 0 THEN atomIds
    ELSE ReachedWithin(atomIds \cup NeighboursOf(atomIds, currentBonds),
                       currentBonds, steps - 1)

Connected(currentAtoms, currentBonds) ==
    \/ currentAtoms = << >>
    \/ ReachedWithin({currentAtoms[1].id}, currentBonds, Len(currentAtoms))
           = AtomIds(currentAtoms)

ReportedSceneConnected ==
    (chkReport # << >> /\ chkReport[1] # << >>) => Connected(chkAtoms, chkBonds)

\* Methane is reported: the scene C, H, H, H, H with four bonds.
ReportedSceneConnectedWitness ==
    /\ chkReport = <<<<MOLECULES[6].formula>>>>
    /\ Len(chkAtoms) = 5
    /\ Len(chkBonds) = 4
    /\ Connected(chkAtoms, chkBonds)


\* C29: for every symbol listed in its table, the noble gases listed with 0
\* included, getMaxBonds(symbol) returns exactly the table's value.
ReturnsTableValue ==
    (capMaxBonds # << >> /\ capSymbol \in DOMAIN maxBondsMap)
        => capMaxBonds[1] = maxBondsMap[capSymbol]


\* C30: a createBond that is rejected (an atom that is not placed, a bond
\* that exists, an endpoint without a slot, an incompatible pair, atoms too
\* far apart) leaves the placed atoms with their availableBonds, the bonds,
\* the score and the completed list unchanged and schedules no completion
\* check.
BondRefused(atom1Id, atom2Id) ==
    \/ ~HasAtom(placedAtoms, atom1Id)
    \/ ~HasAtom(placedAtoms, atom2Id)
    \/ FirstFailingReason(atom1Id, atom2Id) # << >>

RejectedBondStep ==
    \A atomId \in AtomIds(placedAtoms) :
        (CreateBondCall(atomId) /\ BondRefused(firstAtomForBond, atomId))
            => /\ placedAtoms' = placedAtoms
               /\ bonds' = bonds
               /\ score' = score
               /\ builtMolecules' = builtMolecules
               /\ completionTimers' = completionTimers

RejectedBondChangesNothing == [][RejectedBondStep]_vars

\* A createBond whose first atom was cleared by the next challenge has been
\* rejected, and the atom clicked is as it was added.
RejectedBondChangesNothingWitness ==
    /\ message = <<"Invalid atoms selected!">>
    /\ bondingMode
    /\ firstAtomForBond = NoAtom
    /\ Len(placedAtoms) = 1
    /\ placedAtoms[1].availableBonds =
           calculateAvailableBonds(ATOMS(placedAtoms[1].symbol), 0)
    /\ bonds = << >>
    /\ completionTimers = << >>

====
